---- MODULE Spec2Model ----
(***************************************************************************)
(* Model of the Aquatiq integration gateway control plane.                 *)
(*                                                                         *)
(*   - whitelist.Manager (src/unnamed/part_008, package whitelist): the    *)
(*     allow/deny registry synchronised to the Traefik dynamic config file *)
(*   - circuitbreaker.CircuitBreaker (internal/config/config.go, package   *)
(*     circuitbreaker): the wrapper around sony/gobreaker v2               *)
(*                                                                         *)
(* Text is modelled as records so that parsing is a real conversion:       *)
(* a string is an IPv4 literal, an IPv4-mapped IPv6 literal, a CIDR        *)
(* literal (whose address part need not be the network address) or         *)
(* something that parses as neither.  Addresses are AddrBits wide.         *)
(***************************************************************************)
EXTENDS Integers, Sequences, FiniteSets, TLC

----------------------------------------------------------------------------
(* Bounds of the model *)

AddrBits == 2
MaxTime == 2
MaxAllow == 2
MaxDeny == 1

\* circuit breaker settings used by the model (Config of circuitbreaker.New)
FailureThreshold == 2
MaxRequests == 2
Interval == 2
Timeout == 2
\* callers, calls and clock of the breaker runs
NCallers == 2
MaxCalls == 3
MaxBreakerTime == 3

\* rate limiter settings used by the model (Config of ratelimit.New)
GlobalRPS == 2
AdminRPS == 1
BurstSize == 2
\* resolution of the limiter's clock
TicksPerSecond == 2
\* concurrent requests, requests and clock of the limiter runs
NClients == 2
MaxRlCalls == 3
MaxFineTicks == 1
MaxMinutes == 1

\* the retrying client: the width of time.Duration (64 in the build) and
\* the settings a Config may carry, in seconds
DurationBits == 4
MaxRetryMax == 3
MaxWaitMin == 2
MaxWaitMax == 3
MaxRetryTime == 4

\* the health checker: how long the process is watched, and the
\* connections the cache pool may report
MaxUptime == 3
MaxConns == 1

\* the per-IP limiter: its rate and burst, the size of the map above which
\* CleanupStale clears it (10000 in the code), the caller IPs and the time
PerIPRPS == 1
PerIPBurst == 1
StaleThreshold == 2
NCallerIPs == 4
MaxPerIPTicks == 1

\* container statistics: the width of the counters (64 in the build) and
\* the largest value the runtime reports
StatBits == 3
MaxStat == 2

\* nameOrID[:12]
ShortIDLen == 12

\* how far the clock runs while goroutines call the Manager concurrently
MuMaxTime == 1

\* the per-minute window of allowDistributed and the expiry of its keys
SecondsPerMinute == 60
ExpireSeconds == 120
\* http.StatusTooManyRequests and the Retry-After header; an admitted
\* request gets its status from the guarded handler
NoStatus == 0
StatusTooManyRequests == 429
RetryAfter == 60

----------------------------------------------------------------------------
(* Strings and the net package *)

NilIP == -1
NoPrefix == -1
NoExpiry == -1

Addrs == 0..(2^AddrBits - 1)

IPText(a) == [kind |-> "ip", addr |-> a, plen |-> NoPrefix]
MappedText(a) == [kind |-> "mapped", addr |-> a, plen |-> NoPrefix]
CIDRText(a, p) == [kind |-> "cidr", addr |-> a, plen |-> p]
Garbage == [kind |-> "bad", addr |-> 0, plen |-> NoPrefix]

\* every string of the model
Strings ==
    {IPText(a) : a \in Addrs} \cup {MappedText(a) : a \in Addrs}
        \cup {CIDRText(a, p) : a \in Addrs, p \in 0..AddrBits} \cup {Garbage}

\* net.ParseIP: the dotted form and the IPv4-mapped form give the same
\* 16-byte address; anything else gives nil
ParseIP(s) == IF s.kind \in {"ip", "mapped"} THEN s.addr ELSE NilIP

\* net.IP.Mask: keep the leading plen bits
MaskAddr(a, plen) == a - (a % (2^(AddrBits - plen)))

\* net.ParseCIDR: the network is the address masked by the prefix length
ParseCIDR(s) ==
    IF s.kind = "cidr"
    THEN [err |-> FALSE, net |-> MaskAddr(s.addr, s.plen), plen |-> s.plen]
    ELSE [err |-> TRUE, net |-> 0, plen |-> 0]

\* net.IPNet.Contains
Contains(ipNet, ip) == MaskAddr(ip, ipNet.plen) = ipNet.net

validateIPOrCIDR(ipStr) ==
    IF ~ParseCIDR(ipStr).err THEN TRUE ELSE ParseIP(ipStr) # NilIP

ipMatches(ip, pattern) ==
    IF ~ParseCIDR(pattern).err
    THEN Contains(ParseCIDR(pattern), ip)
    ELSE IF ParseIP(pattern) # NilIP
         THEN ip = ParseIP(pattern)
         ELSE FALSE

----------------------------------------------------------------------------
(* Inputs of the operations *)

\* the patterns of the calls: the same address in two spellings, a CIDR
\* whose address part is not its network address, and a malformed string
PatternInputs == {Garbage, IPText(1), MappedText(1), CIDRText(1, 1)}
\* the pattern the file holds when it was left by an earlier run
LoadedPattern == CIDRText(2, 2)
RemovalInputs == PatternInputs \cup {LoadedPattern}
\* the patterns of the deny-list calls
DenyInputs == {Garbage, IPText(1), CIDRText(1, 1)}
\* no expiry, or an expiry one instant before the end of the clock
ExpiryInputs == {NoExpiry, MaxTime - 1}
Actors == {"admin"}
Descriptions == {"eng laptop"}

----------------------------------------------------------------------------
(* State *)

VARIABLES
    whitelist,      \* Manager.whitelist: sequence of IPEntry
    blacklist,      \* Manager.blacklist: sequence of IPEntry
    file,           \* the Traefik dynamic config file
    now,            \* the wall clock read by time.Now()
    auditEvents,    \* the audit events emitted by the latest call
    lastCall,       \* the latest call: operation, argument and what it returned
    cb,             \* the gobreaker.CircuitBreaker behind CircuitBreaker.cb
    calls,          \* per caller: its ExecuteContext call and the goroutine it spawned
    lastRet,        \* what the latest ExecuteContext call to return has returned
    started,        \* number of ExecuteContext calls begun so far
    failRun,        \* failed calls in a row, one after the other, since the last success or (re)closing
    windowRun,      \* the same, restarted whenever the breaker starts a new generation
    trial,          \* the outcome of the latest half-open trial call
    limiters,       \* Limiter.globalLimiter and Limiter.adminLimiter
    distributed,    \* Limiter.distributed, with a cache at hand
    cache,          \* the counters of the shared cache, by key
    rq,             \* per client: its request inside Middleware
    rlStarted,      \* number of requests begun so far
    lastResp,       \* what Middleware did with the latest request it answered
    run,            \* per tier: the run of calls since the bucket was last full
    admitted,       \* per key: requests the counter of the key has admitted
    containers,     \* the container runtime: state of each container
    lastDocker,     \* the latest call of the docker Manager and what it did
    lastRpc,        \* the latest request of the gRPC server and where it got
    doEnded,        \* calls of httpclient.Client.Do that have ended
    doEvents,       \* integration-call audit events emitted by Do
    lastEvent,      \* the latest of these events
    crashed,        \* a panic has ended the process
    retryClient,    \* the retryablehttp.Client that New configures
    retry,          \* the request inside retryablehttp.Client.Do
    trail,          \* the client address and the IPAddress of the latest audit events
    dbChecker,      \* the DatabaseChecker: whether it was given a cache
    health,         \* what the latest probe of the HealthChecker returned
    perIP,          \* PerIPLimiter.limiters: the limiter of each caller IP seen
    lastPerIP,      \* what the per-IP middleware did with the latest request
    lastStats,      \* the latest call of GetContainerStats and how it ended
    mu,             \* Manager.mu: the writer holding it and the readers holding it
    th              \* per goroutine: its call of a Manager method and where it stands

wlVars == <<whitelist, blacklist, file, auditEvents, lastCall>>
cbVars == <<cb, calls, lastRet, started, failRun, windowRun, trial>>
rlVars == <<limiters, distributed, cache, rq, rlStarted, lastResp, run, admitted>>
ctlVars == <<containers, lastDocker, lastRpc>>
httpVars == <<doEnded, doEvents, lastEvent, crashed>>
retryVars == <<retryClient, retry>>
healthVars == <<dbChecker, health>>
perIPVars == <<perIP, lastPerIP>>
muVars == <<mu, th>>
auxVars == <<retryVars, trail, healthVars, perIPVars, lastStats, muVars>>
vars == <<wlVars, now, cbVars, rlVars, ctlVars, httpVars, auxVars>>
\* what the operations of one component leave alone
notWl == <<cbVars, rlVars, ctlVars, httpVars, auxVars>>
notCb == <<wlVars, rlVars, ctlVars, httpVars, auxVars>>
notRl == <<wlVars, cbVars, ctlVars, httpVars, auxVars>>
notHttp == <<wlVars, rlVars, ctlVars, auxVars>>

\* the file is missing, or holds the sourceRange list of the
\* dynamic-ipwhitelist middleware (the header comment is not data)
NoFile == [exists |-> FALSE, sourceRange |-> <<>>]
FileOf(sourceRange) == [exists |-> TRUE, sourceRange |-> sourceRange]

\* IPEntry; AddedAt is stamped once and read by no operation of the manager,
\* so it is left out of the state
IPEntry(ip, desc, by, exp) ==
    [IP |-> ip, Description |-> desc, AddedBy |-> by, ExpiresAt |-> exp]

AuditEvent(action, actor, resource) ==
    [Action |-> action, Actor |-> actor, Resource |-> resource, Success |-> TRUE]

\* what a call did: the error it returned ("nil" for none), how many times it
\* wrote the file, whether that write failed, and the count it returned
Call(op, ip, err, writes, writeFailed, removed) ==
    [op |-> op, ip |-> ip, err |-> err, writes |-> writes,
     writeFailed |-> writeFailed, removed |-> removed]

\* an expiry test that already fires at the expiry instant
Expired_AtOrAfter(entry, t) == entry.ExpiresAt # NoExpiry /\ t >= entry.ExpiresAt

\* entry.ExpiresAt != nil && time.Now().After(*entry.ExpiresAt)
Expired(entry, t) == entry.ExpiresAt # NoExpiry /\ t > entry.ExpiresAt

HasPattern(list, ip) == \E i \in 1..Len(list) : list[i].IP = ip

----------------------------------------------------------------------------
(* circuitbreaker.CircuitBreaker: the settings New passes to gobreaker and  *)
(* the state machine gobreaker runs behind cb.cb.Execute and cb.cb.State    *)

NoTime == -1

Callers == 1..NCallers

ZeroCounts ==
    [Requests |-> 0, TotalSuccesses |-> 0, TotalFailures |-> 0,
     ConsecutiveSuccesses |-> 0, ConsecutiveFailures |-> 0]

\* a ReadyToTrip that needs one failure more than the threshold
ReadyToTrip_Above(counts) == counts.ConsecutiveFailures > FailureThreshold

\* Settings.ReadyToTrip
ReadyToTrip(counts) == counts.ConsecutiveFailures >= FailureThreshold

\* Settings.IsSuccessful: err == nil
IsSuccessful(err) == err = "nil"

\* the errors the wrapped function of httpclient.Client.Do can return
FnErrors == {"request failed", "HTTP error"}
FnResults == {"nil"} \cup FnErrors

ErrOpenState == "circuit breaker is open"
ErrTooManyRequests == "too many requests"
CtxErr == "context canceled"

\* gobreaker toNewGeneration, for a breaker whose state is already set
ToNewGeneration(b, t) ==
    [b EXCEPT !.generation = @ + 1,
              !.counts = ZeroCounts,
              !.expiry = CASE b.state = "closed" ->
                                  IF Interval = 0 THEN NoTime ELSE t + Interval
                           [] b.state = "open" -> t + Timeout
                           [] OTHER -> NoTime]

\* gobreaker setState
SetState(b, state, t) ==
    IF b.state = state THEN b ELSE ToNewGeneration([b EXCEPT !.state = state], t)

\* gobreaker currentState: a Closed breaker whose interval ran out starts a
\* new generation, an Open one whose timeout ran out becomes HalfOpen
CurrentState(b, t) ==
    CASE b.state = "closed" /\ b.expiry # NoTime /\ b.expiry < t -> ToNewGeneration(b, t)
      [] b.state = "open" /\ b.expiry < t -> SetState(b, "half-open", t)
      [] OTHER -> b

OnRequest(counts) == [counts EXCEPT !.Requests = @ + 1]

CountSuccess(counts) ==
    [counts EXCEPT !.TotalSuccesses = @ + 1,
                   !.ConsecutiveSuccesses = @ + 1,
                   !.ConsecutiveFailures = 0]

CountFailure(counts) ==
    [counts EXCEPT !.TotalFailures = @ + 1,
                   !.ConsecutiveFailures = @ + 1,
                   !.ConsecutiveSuccesses = 0]

\* an onSuccess that closes a HalfOpen breaker at its first success
OnSuccess_FirstSuccess(b, t) ==
    CASE b.state = "closed" -> [b EXCEPT !.counts = CountSuccess(@)]
      [] b.state = "half-open" ->
            SetState([b EXCEPT !.counts = CountSuccess(@)], "closed", t)
      [] OTHER -> b

\* gobreaker onSuccess
OnSuccess(b, t) ==
    CASE b.state = "closed" -> [b EXCEPT !.counts = CountSuccess(@)]
      [] b.state = "half-open" ->
            LET c == [b EXCEPT !.counts = CountSuccess(@)]
            IN  IF c.counts.ConsecutiveSuccesses >= MaxRequests
                THEN SetState(c, "closed", t)
                ELSE c
      [] OTHER -> b

\* gobreaker onFailure
OnFailure(b, t) ==
    CASE b.state = "closed" ->
            LET c == [b EXCEPT !.counts = CountFailure(@)]
            IN  IF ReadyToTrip(c.counts) THEN SetState(c, "open", t) ELSE c
      [] b.state = "half-open" -> SetState(b, "open", t)
      [] OTHER -> b

\* gobreaker afterRequest: the outcome of a call of an earlier generation
\* is dropped
AfterRequest(b, before, success, t) ==
    LET c == CurrentState(b, t)
    IN  IF c.generation # before THEN c
        ELSE IF success THEN OnSuccess(c, t) ELSE OnFailure(c, t)

\* a beforeRequest that admits one HalfOpen call more than MaxRequests
BeforeRequestErr_OneMore(b, t) ==
    LET c == CurrentState(b, t)
    IN  IF c.state = "open" THEN ErrOpenState
        ELSE IF c.state = "half-open" /\ c.counts.Requests > MaxRequests
             THEN ErrTooManyRequests
             ELSE "nil"

\* gobreaker beforeRequest: the error it returns
BeforeRequestErr(b, t) ==
    LET c == CurrentState(b, t)
    IN  IF c.state = "open" THEN ErrOpenState
        ELSE IF c.state = "half-open" /\ c.counts.Requests >= MaxRequests
             THEN ErrTooManyRequests
             ELSE "nil"

\* gobreaker beforeRequest: the breaker it leaves
BeforeRequest(b, t) ==
    LET c == CurrentState(b, t)
    IN  IF BeforeRequestErr(b, t) # "nil" THEN c
        ELSE [c EXCEPT !.counts = OnRequest(@)]

\* one caller: where its goroutine is ("fn" while the wrapped function
\* runs), the generation beforeRequest gave it, the result it sends, and
\* whether the caller still waits in the select
IdleCall == [pc |-> "idle", gen |-> 0, res |-> "nil", waiting |-> FALSE]

\* what the latest afterRequest did as a half-open trial, if it was one
NoTrial == [success |-> FALSE, state |-> "none"]

\* gobreaker.NewCircuitBreaker: Closed, first generation
BreakerInit ==
    /\ cb = ToNewGeneration(
                [state |-> "closed", generation |-> 0, counts |-> ZeroCounts,
                 expiry |-> NoTime], 0)
    /\ calls = [c \in Callers |-> IdleCall]
    /\ lastRet = "none"
    /\ started = 0
    /\ failRun = 0
    /\ windowRun = 0
    /\ trial = NoTrial

\* ExecuteContext up to the select: a context that is already cancelled
\* returns at once, otherwise the goroutine is started
ExecuteContext(c, cancelled) ==
    /\ calls[c].pc = "idle"
    /\ started < MaxCalls
    /\ started' = started + 1
    /\ IF cancelled
       THEN /\ lastRet' = CtxErr
            /\ UNCHANGED calls
       ELSE /\ calls' = [calls EXCEPT ![c] =
                            [IdleCall EXCEPT !.pc = "spawned", !.waiting = TRUE]]
            /\ UNCHANGED lastRet
    /\ UNCHANGED <<cb, failRun, windowRun, trial, now>>

\* a goroutine that calls the wrapped function without asking the breaker
ExecuteBefore_Bypass(c) ==
    /\ calls[c].pc = "spawned"
    /\ calls' = [calls EXCEPT ![c] = [@ EXCEPT !.pc = "fn", !.gen = cb.generation]]
    /\ UNCHANGED <<cb, lastRet, started, failRun, windowRun, trial, now>>

\* the goroutine enters Execute: beforeRequest admits or rejects the call
ExecuteBefore(c) ==
    /\ calls[c].pc = "spawned"
    /\ cb' = BeforeRequest(cb, now)
    /\ calls' = [calls EXCEPT ![c] =
            IF BeforeRequestErr(cb, now) # "nil"
            THEN [@ EXCEPT !.pc = "sent", !.res = BeforeRequestErr(cb, now)]
            ELSE [@ EXCEPT !.pc = "fn", !.gen = cb'.generation]]
    /\ windowRun' = IF cb'.generation # cb.generation THEN 0 ELSE windowRun
    /\ failRun' = IF cb'.state = "closed" /\ cb.state # "closed" THEN 0 ELSE failRun
    /\ UNCHANGED <<lastRet, started, trial, now>>

\* the wrapped function returns, afterRequest records the outcome and the
\* goroutine sends the result on the buffered channel
ExecuteAfter(c, err) ==
    /\ calls[c].pc = "fn"
    /\ cb' = AfterRequest(cb, calls[c].gen, IsSuccessful(err), now)
    /\ calls' = [calls EXCEPT ![c] = [@ EXCEPT !.pc = "sent", !.gen = 0, !.res = err]]
    /\ failRun' =
          IF \/ IsSuccessful(err)
             \/ cb'.state = "closed" /\ cb.state # "closed"
             \/ \E d \in Callers \ {c} : calls[d].pc \in {"spawned", "fn"}
          THEN 0 ELSE failRun + 1
    /\ windowRun' =
          IF cb'.generation # cb.generation THEN 0
          ELSE IF cb.generation # calls[c].gen THEN windowRun
          ELSE IF IsSuccessful(err) THEN 0 ELSE windowRun + 1
    /\ trial' = IF CurrentState(cb, now).state = "half-open"
                    /\ CurrentState(cb, now).generation = calls[c].gen
                 THEN [success |-> IsSuccessful(err), state |-> cb'.state]
                 ELSE NoTrial
    /\ UNCHANGED <<lastRet, started, now>>

\* the select takes the result
Receive(c) ==
    /\ calls[c].pc = "sent"
    /\ calls[c].waiting
    /\ lastRet' = calls[c].res
    /\ calls' = [calls EXCEPT ![c] = IdleCall]
    /\ UNCHANGED <<cb, started, failRun, windowRun, trial, now>>

\* the context is cancelled and the select takes ctx.Done: ExecuteContext
\* returns while the goroutine goes on
Cancel(c) ==
    /\ calls[c].waiting
    /\ lastRet' = CtxErr
    /\ calls' = [calls EXCEPT ![c] = [@ EXCEPT !.waiting = FALSE]]
    /\ UNCHANGED <<cb, started, failRun, windowRun, trial, now>>

\* the goroutine of a call that already returned ends after its send
Finish(c) ==
    /\ calls[c].pc = "sent"
    /\ ~calls[c].waiting
    /\ calls' = [calls EXCEPT ![c] = IdleCall]
    /\ UNCHANGED <<cb, lastRet, started, failRun, windowRun, trial, now>>

\* CircuitBreaker.State
State ==
    /\ CurrentState(cb, now) # cb
    /\ cb' = CurrentState(cb, now)
    /\ windowRun' = 0
    /\ UNCHANGED <<calls, lastRet, started, failRun, trial, now>>

BreakerTick ==
    /\ now < MaxBreakerTime
    /\ now' = now + 1
    /\ UNCHANGED cbVars

----------------------------------------------------------------------------
(* ratelimit.Limiter *)

Tiers == {"global", "admin"}
Clients == 1..NClients

\* Limiter.getLimit, the rate.Limit of the tier's limiter
Limit(tier) == IF tier = "admin" THEN AdminRPS ELSE GlobalRPS

\* the burst New gives the tier's limiter
Burst(tier) == IF tier = "admin" THEN BurstSize \div 2 ELSE BurstSize

\* the clock counts ticks of 1/TicksPerSecond second and a bucket counts
\* tokens in units of 1/TicksPerSecond token, so that a tick refills
\* Limit units and a call costs TokenUnit of them
TokenUnit == TicksPerSecond
TicksPerMinute == SecondsPerMinute * TicksPerSecond

Min(a, b) == IF a < b THEN a ELSE b

\* rate.NewLimiter: the bucket starts full
NewLimiter(r, b) == [limit |-> r, burst |-> b, tokens |-> b * TokenUnit, last |-> 0]

\* rate.Limiter.advance: the tokens at time t, capped at the burst
Advance(lim, t) == Min(lim.burst * TokenUnit, lim.tokens + (t - lim.last) * lim.limit)

\* an Allow that forgets the tokens refilled since the last call
LimiterAllow_NoRefill(lim, t) ==
    IF lim.tokens >= TokenUnit
    THEN [ok |-> TRUE, lim |-> [lim EXCEPT !.tokens = lim.tokens - TokenUnit, !.last = t]]
    ELSE [ok |-> FALSE, lim |-> lim]

\* rate.Limiter.Allow: takes one token if there is one
LimiterAllow(lim, t) ==
    IF Advance(lim, t) >= TokenUnit
    THEN [ok |-> TRUE, lim |-> [lim EXCEPT !.tokens = Advance(lim, t) - TokenUnit, !.last = t]]
    ELSE [ok |-> FALSE, lim |-> lim]

\* the key of allowDistributed: the tier and time.Now().Unix()/60
Minute(t) == (t \div TicksPerSecond) \div SecondsPerMinute
Key(tier, t) == <<tier, Minute(t)>>
Keys == Tiers \X (0..MaxMinutes)

NoKey == [count |-> 0, expiry |-> NoTime]

\* the counter the cache holds under a key at time t: an expired key is gone
Counter(k, t) ==
    IF cache[k].expiry # NoTime /\ cache[k].expiry <= t THEN NoKey ELSE cache[k]

\* RedisCache.Increment: INCR creates the key at 1 or adds one to it
Increment(k, t) == [cache EXCEPT ![k] = [Counter(k, t) EXCEPT !.count = @ + 1]]

\* RedisCache.Expire
Expire(ch, k, t) == [ch EXCEPT ![k].expiry = t + ExpireSeconds * TicksPerSecond]

\* the comparison allowDistributed returns: one request too few
WithinLimit_Below(count, tier) == count < Limit(tier) * SecondsPerMinute

\* the comparison allowDistributed returns
WithinLimit(count, tier) == count <= Limit(tier) * SecondsPerMinute

IdleRequest ==
    [pc |-> "idle", tier |-> "global", mode |-> "none", ok |-> FALSE,
     count |-> 0, key |-> <<"global", 0>>, nth |-> 0, elapsed |-> 0]

\* the X-RateLimit-Limit, X-RateLimit-Remaining and Retry-After headers
NoHeader == -1
Headers(limit, remaining, retryAfter) ==
    [limit |-> limit, remaining |-> remaining, retryAfter |-> retryAfter]

NoResponse ==
    [tier |-> "none", mode |-> "none", allowed |-> FALSE, status |-> NoStatus,
     headers |-> Headers(NoHeader, NoHeader, NoHeader),
     handlerRan |-> FALSE, audit |-> <<>>]

\* AuditLogger.LogRateLimitExceeded
RateLimitEvent(tier) ==
    [Action |-> "rate_limit_exceeded", Success |-> FALSE, limit |-> tier]

\* the place of a call in the run of calls of its tier that began with the
\* bucket full: its number in the run and the ticks since the run began
RunAt(tier, t) ==
    IF Advance(limiters[tier], t) = limiters[tier].burst * TokenUnit
    THEN [t0 |-> t, n |-> 1]
    ELSE [run[tier] EXCEPT !.n = @ + 1]

\* the tier's local bucket decides: AllowGlobal / AllowAdmin in local mode,
\* and the fallback of allowDistributed
LocalAllow(c, tier, mode) ==
    /\ limiters' = [limiters EXCEPT ![tier] = LimiterAllow(@, now).lim]
    /\ run' = [run EXCEPT ![tier] = RunAt(tier, now)]
    /\ rq' = [rq EXCEPT ![c] =
                 [IdleRequest EXCEPT !.pc = "allowed", !.tier = tier, !.mode = mode,
                                     !.ok = LimiterAllow(limiters[tier], now).ok,
                                     !.nth = RunAt(tier, now).n,
                                     !.elapsed = now - RunAt(tier, now).t0]]
    /\ UNCHANGED cache

\* a fallback that asks no bucket and denies
allowDistributed_FailClosed(c, tier, cacheOk) ==
    IF cacheOk
    THEN /\ cache' = Increment(Key(tier, now), now)
         /\ rq' = [rq EXCEPT ![c] =
                      [IdleRequest EXCEPT !.pc = "counted", !.tier = tier, !.mode = "cache",
                                          !.key = Key(tier, now),
                                          !.count = cache'[Key(tier, now)].count]]
         /\ UNCHANGED <<limiters, run>>
    ELSE /\ rq' = [rq EXCEPT ![c] =
                      [IdleRequest EXCEPT !.pc = "allowed", !.tier = tier,
                                          !.mode = "fallback", !.ok = FALSE]]
         /\ UNCHANGED <<limiters, run, cache>>

\* allowDistributed up to the answer of the cache: the counter of the key
\* is incremented, or the cache fails and the tier's local bucket decides
allowDistributed(c, tier, cacheOk) ==
    IF cacheOk
    THEN /\ cache' = Increment(Key(tier, now), now)
         /\ rq' = [rq EXCEPT ![c] =
                      [IdleRequest EXCEPT !.pc = "counted", !.tier = tier, !.mode = "cache",
                                          !.key = Key(tier, now),
                                          !.count = cache'[Key(tier, now)].count]]
         /\ UNCHANGED <<limiters, run>>
    ELSE LocalAllow(c, IF tier = "admin" THEN "admin" ELSE "global", "fallback")

\* Middleware up to the decision of AllowAdmin / AllowGlobal, or up to the
\* answer of the cache to the increment
Allow(c, tier, cacheOk) ==
    /\ rq[c].pc = "idle"
    /\ rlStarted < MaxRlCalls
    /\ rlStarted' = rlStarted + 1
    /\ IF distributed
       THEN allowDistributed(c, tier, cacheOk)
       ELSE LocalAllow(c, tier, "local")
    /\ UNCHANGED <<distributed, admitted, lastResp, now>>

\* what Middleware answers once the decision is there
Response(r, allowed, handlerRan) ==
    [tier |-> r.tier, mode |-> r.mode, allowed |-> allowed,
     status |-> IF allowed THEN NoStatus ELSE StatusTooManyRequests,
     headers |-> IF allowed THEN Headers(Limit(r.tier), NoHeader, NoHeader)
                            ELSE Headers(Limit(r.tier), 0, RetryAfter),
     handlerRan |-> handlerRan,
     audit |-> IF allowed THEN <<>> ELSE <<RateLimitEvent(r.tier)>>]

\* the decision of the Allow call of request r
Decision(r) == IF r.pc = "counted" THEN WithinLimit(r.count, r.tier) ELSE r.ok

\* the rest of allowDistributed is the same for both middlewares
AfterIncrement(c, expireOk) ==
    /\ rq[c].pc \in {"allowed", "counted"}
    /\ cache' = IF rq[c].pc = "counted" /\ rq[c].count = 1 /\ expireOk
                 THEN Expire(cache, rq[c].key, now) ELSE cache
    /\ admitted' = IF rq[c].pc = "counted" /\ Decision(rq[c])
                    THEN [admitted EXCEPT ![rq[c].key] = @ + 1] ELSE admitted
    /\ rq' = [rq EXCEPT ![c] = IdleRequest]
    /\ UNCHANGED <<limiters, distributed, run, rlStarted, now>>

\* a middleware without the return after the 429
Middleware_NoReturn(c, expireOk) ==
    /\ AfterIncrement(c, expireOk)
    /\ lastResp' = Response(rq[c], Decision(rq[c]), TRUE)

\* Middleware from the decision on: the first Expire of the key and the
\* comparison of allowDistributed, then the 429 with its audit event or
\* the guarded handler
Middleware(c, expireOk) ==
    /\ AfterIncrement(c, expireOk)
    /\ lastResp' = Response(rq[c], Decision(rq[c]), Decision(rq[c]))

\* the clock: local mode is followed tick by tick, distributed mode from
\* one minute window to the next, a request being answered within the
\* minute it arrived in
LimiterTick ==
    /\ IF distributed
       THEN /\ Minute(now) < MaxMinutes
            /\ \A c \in Clients : rq[c].pc = "idle"
            /\ now' = now + TicksPerMinute
       ELSE now < MaxFineTicks /\ now' = now + 1
    /\ UNCHANGED rlVars

\* the counters earlier requests of the first minute have left in the
\* cache: none, or one request short of each tier's limit
Preloaded(full) ==
    [k \in Keys |->
        IF full /\ k[2] = 0
        THEN [count |-> Limit(k[1]) * SecondsPerMinute - 1,
              expiry |-> ExpireSeconds * TicksPerSecond]
        ELSE NoKey]

\* ratelimit.New, with Distributed as main sets it
LimiterInit ==
    /\ distributed \in BOOLEAN
    /\ limiters = [tier \in Tiers |-> NewLimiter(Limit(tier), Burst(tier))]
    /\ \E full \in BOOLEAN :
          /\ distributed \/ ~full
          /\ cache = Preloaded(full)
    /\ admitted = [k \in Keys |-> cache[k].count]
    /\ run = [tier \in Tiers |-> [t0 |-> 0, n |-> 0]]
    /\ rq = [c \in Clients |-> IdleRequest]
    /\ lastResp = NoResponse
    /\ rlStarted = 0

\* a limiter no request reaches
LimiterAtRest ==
    /\ distributed = FALSE
    /\ limiters = [tier \in Tiers |-> NewLimiter(Limit(tier), Burst(tier))]
    /\ cache = Preloaded(FALSE)
    /\ admitted = [k \in Keys |-> 0]
    /\ run = [tier \in Tiers |-> [t0 |-> 0, n |-> 0]]
    /\ rq = [c \in Clients |-> IdleRequest]
    /\ lastResp = NoResponse
    /\ rlStarted = 0

----------------------------------------------------------------------------
(* docker.Manager *)

ContainerIds == {"traefik"}

\* the audit event of a container operation
DockerEvent(action, nameOrID) ==
    [Action |-> action, Actor |-> "gateway", Resource |-> nameOrID, Success |-> TRUE]

NoDockerCall == [op |-> "none", id |-> "none", err |-> "nil", apiCalls |-> 0, audit |-> <<>>]

\* StartContainer, StopContainer and RestartContainer: one call of the
\* runtime API; its error is returned at once, otherwise the event is logged
ContainerOp(op, action, nameOrID, state, apiOk) ==
    /\ containers' = IF apiOk THEN [containers EXCEPT ![nameOrID] = state] ELSE containers
    /\ lastDocker' =
          [op |-> op, id |-> nameOrID, apiCalls |-> 1,
           err |-> IF apiOk THEN "nil" ELSE "failed to " \o action \o " container",
           audit |-> IF apiOk THEN <<DockerEvent("docker_container_" \o action, nameOrID)>>
                     ELSE <<>>]

StartContainer(nameOrID, apiOk) ==
    ContainerOp("StartContainer", "start", nameOrID, "running", apiOk)

StopContainer(nameOrID, apiOk) ==
    ContainerOp("StopContainer", "stop", nameOrID, "exited", apiOk)

RestartContainer(nameOrID, apiOk) ==
    ContainerOp("RestartContainer", "restart", nameOrID, "running", apiOk)

\* what a gRPC request presents as credential
Credentials == {"none", "invalid", "valid"}

NoRpc == [method |-> "none", credential |-> "none", reached |-> FALSE]

\* grpc.NewServer is given no interceptor: a request goes to the handler
\* of its method, and so to the manager, whatever it presents
Dispatch(method, credential) ==
    lastRpc' = [method |-> method, credential |-> credential, reached |-> TRUE]

\* docker.NewManager and a gRPC server no request has reached
ControlInit ==
    /\ containers \in [ContainerIds -> {"running", "exited"}]
    /\ lastDocker = NoDockerCall
    /\ lastRpc = NoRpc

ControlAtRest ==
    /\ containers = [id \in ContainerIds |-> "running"]
    /\ lastDocker = NoDockerCall
    /\ lastRpc = NoRpc

----------------------------------------------------------------------------
(* httpclient.Client *)

ServiceName == "erp"

NoEvent == [Resource |-> "none", Success |-> FALSE, Error |-> "nil"]

\* AuditLogger.LogIntegrationCall as Do calls it (the measured duration,
\* time.Since(startTime), is left out of the event)
LogIntegrationCall(err) ==
    /\ lastEvent' = [Resource |-> ServiceName, Success |-> err = "nil", Error |-> err]
    /\ doEvents' = doEvents + 1

\* make([]byte, resp.ContentLength) with the length of a response that
\* does not announce one
PanicMakeslice == "makeslice: len out of range"

\* Do: ExecuteContext is entered; a context already cancelled makes it
\* return at once, and Do logs the call
HttpDo(c, cancelled) ==
    /\ ~crashed
    /\ ExecuteContext(c, cancelled)
    /\ IF cancelled
       THEN LogIntegrationCall(CtxErr) /\ doEnded' = doEnded + 1
       ELSE UNCHANGED <<doEnded, doEvents, lastEvent>>
    /\ UNCHANGED crashed

\* the wrapped function of Do returns: the error of the retrying client,
\* "HTTP error" for a status outside 2xx, or nil with the body read
HttpFnReturns(c, err) ==
    /\ ~crashed
    /\ ExecuteAfter(c, err)
    /\ UNCHANGED httpVars

\* the wrapped function of Do panics on a 2xx response of unknown length:
\* gobreaker records the failure and panics again, in a goroutine nobody
\* recovers, and the process ends with every call of Do still under way
HttpFnPanics(c) ==
    /\ ~crashed
    /\ ExecuteAfter(c, PanicMakeslice)
    /\ crashed' = TRUE
    /\ doEnded' = doEnded + Cardinality({d \in Callers : calls[d].waiting})
    /\ UNCHANGED <<doEvents, lastEvent>>

\* ExecuteContext returns the result of the goroutine and Do logs the call
HttpReceive(c) ==
    /\ ~crashed
    /\ Receive(c)
    /\ LogIntegrationCall(calls[c].res)
    /\ doEnded' = doEnded + 1
    /\ UNCHANGED crashed

\* ExecuteContext returns ctx.Err() and Do logs the call
HttpCancel(c) ==
    /\ ~crashed
    /\ Cancel(c)
    /\ LogIntegrationCall(CtxErr)
    /\ doEnded' = doEnded + 1
    /\ UNCHANGED crashed

HttpInit ==
    /\ doEnded = 0
    /\ doEvents = 0
    /\ lastEvent = NoEvent
    /\ crashed = FALSE

----------------------------------------------------------------------------
(* httpclient.New: the retry policy and the backoff of the retrying client *)

\* time.Duration: a signed integer of DurationBits bits, counted in seconds
MaxDuration == 2^(DurationBits - 1) - 1

\* the value an arithmetic result has once stored in a time.Duration
Wrap(x) ==
    LET m == x % 2^DurationBits
    IN IF m > MaxDuration THEN m - 2^DurationBits ELSE m

\* time.Duration(1 << uint(attemptNum)): a shift by the width or more is 0
Shl(attemptNum) == IF attemptNum >= DurationBits THEN 0 ELSE Wrap(2^attemptNum)

\* the Retry-After header of a response: absent, a number of seconds or an
\* HTTP date
NoRetryAfter == [kind |-> "none", n |-> 0]
DelaySeconds(n) == [kind |-> "seconds", n |-> n]
HttpDate == [kind |-> "date", n |-> 0]

\* time.ParseDuration(retryAfter + "s"): a decimal number of seconds that
\* fits a time.Duration, anything else is an error
ParseDurationOk(retryAfter) == retryAfter.kind = "seconds" /\ retryAfter.n <= MaxDuration
ParseDuration(retryAfter) == retryAfter.n

\* what one attempt of HTTPClient.Do ends in
NoStatusCode == 0
ConnError == [err |-> TRUE, status |-> NoStatusCode, retryAfter |-> NoRetryAfter]
HttpResponse(status, retryAfter) == [err |-> FALSE, status |-> status, retryAfter |-> retryAfter]

StatusCodes == {200, 304, 400, 404, 408, 429, 500, 503}

RetryAfterValues ==
    {NoRetryAfter, HttpDate, DelaySeconds(0), DelaySeconds(MaxWaitMax + 1),
     DelaySeconds(MaxDuration), DelaySeconds(MaxDuration + 1)}

Outcomes ==
    {ConnError}
      \cup {HttpResponse(st, NoRetryAfter) : st \in StatusCodes}
      \cup {HttpResponse(429, ra) : ra \in RetryAfterValues}
      \cup {HttpResponse(503, DelaySeconds(MaxWaitMax + 1))}

\* CheckRetry(ctx, resp, err): the first result
CheckRetry_AnyClientError(ctxErr, o) ==
    IF ctxErr THEN FALSE
    ELSE IF o.err THEN TRUE
    ELSE o.status >= 400

CheckRetry(ctxErr, o) ==
    IF ctxErr THEN FALSE
    ELSE IF o.err THEN TRUE
    ELSE IF o.status >= 500 THEN TRUE
    ELSE IF o.status = 429 THEN TRUE
    ELSE IF o.status = 408 THEN TRUE
    ELSE FALSE

\* Backoff(min, max, attemptNum, resp) takes the Retry-After branch
UsesRetryAfter(o) ==
    /\ ~o.err
    /\ o.status = 429
    /\ o.retryAfter.kind # "none"
    /\ ParseDurationOk(o.retryAfter)

\* the exponential branch of Backoff
Exponential(min, max, attemptNum) ==
    LET wait == Wrap(min * Shl(attemptNum))
    IN IF wait > max THEN max ELSE wait

Backoff_Clamped(min, max, attemptNum, o) ==
    IF UsesRetryAfter(o)
    THEN Min(max, ParseDuration(o.retryAfter))
    ELSE Exponential(min, max, attemptNum)

Backoff(min, max, attemptNum, o) ==
    IF UsesRetryAfter(o)
    THEN ParseDuration(o.retryAfter)
    ELSE Exponential(min, max, attemptNum)

\* no wait computed yet: below every time.Duration
NoWait == -(2^DurationBits)

IdleRetry ==
    [pc |-> "idle", i |-> 0, attempts |-> 0, cancelled |-> FALSE,
     outcome |-> ConnError, ctxErr |-> FALSE, shouldRetry |-> FALSE,
     wait |-> NoWait, computed |-> FALSE, prev |-> NoWait, timerFrom |-> 0,
     startedAfterCancel |-> FALSE]

\* retryablehttp.Client.Do is entered with a request whose context may be
\* cancelled already
RetryDo(cancelled) ==
    /\ retry.pc \in {"idle", "done"}
    /\ retry' = [IdleRetry EXCEPT !.pc = "attempt", !.cancelled = cancelled,
                                  !.startedAfterCancel = cancelled]
    /\ UNCHANGED <<retryClient, now>>

\* one turn of the loop of Do: HTTPClient.Do ends in o, the context being
\* cancelled meanwhile or not; CheckRetry decides; the loop ends when it
\* says no or no retry remains, else Backoff sets the timer
RetryAttempt(o, cancelledMeanwhile) ==
    LET ctxErr == retry.cancelled \/ cancelledMeanwhile
        shouldRetry == CheckRetry(ctxErr, o)
        remain == retryClient.RetryMax - retry.i
        wait == Backoff(retryClient.RetryWaitMin, retryClient.RetryWaitMax, retry.i, o)
        seen == [retry EXCEPT !.attempts = @ + 1, !.cancelled = ctxErr,
                              !.outcome = o, !.ctxErr = ctxErr,
                              !.shouldRetry = shouldRetry]
    IN /\ retry.pc = "attempt"
       /\ retry' = IF ~shouldRetry \/ remain <= 0
                   THEN [seen EXCEPT !.pc = "done"]
                   ELSE [seen EXCEPT !.pc = "wait", !.wait = wait,
                                     !.computed = ~UsesRetryAfter(o),
                                     !.prev = IF retry.computed THEN retry.wait ELSE retry.prev,
                                     !.timerFrom = now]
       /\ UNCHANGED <<retryClient, now>>

\* the select of Do takes the timer: the next attempt starts
RetryTimer ==
    /\ retry.pc = "wait"
    /\ now >= retry.timerFrom + retry.wait
    /\ retry' = [retry EXCEPT !.pc = "attempt", !.i = @ + 1,
                              !.startedAfterCancel = retry.cancelled]
    /\ UNCHANGED <<retryClient, now>>

\* the select of Do takes req.Context().Done(): Do returns the context's error
RetryCtxDone ==
    /\ retry.pc = "wait"
    /\ retry.cancelled
    /\ retry' = [retry EXCEPT !.pc = "done"]
    /\ UNCHANGED <<retryClient, now>>

\* the caller cancels the context of the request
RetryCancel ==
    /\ retry.pc \in {"attempt", "wait"}
    /\ ~retry.cancelled
    /\ retry' = [retry EXCEPT !.cancelled = TRUE]
    /\ UNCHANGED <<retryClient, now>>

RetryTick ==
    /\ now < MaxRetryTime
    /\ now' = now + 1
    /\ UNCHANGED retryVars

\* New: the settings of the Config
RetryConfigs ==
    {[RetryMax |-> m, RetryWaitMin |-> lo, RetryWaitMax |-> hi] :
        m \in 0..MaxRetryMax, lo \in 1..MaxWaitMin, hi \in 1..MaxWaitMax}

RetryInit ==
    /\ retryClient \in {c \in RetryConfigs : c.RetryWaitMin <= c.RetryWaitMax}
    /\ retry = IdleRetry

RetryAtRest ==
    /\ retryClient = [RetryMax |-> 0, RetryWaitMin |-> 1, RetryWaitMax |-> 1]
    /\ retry = IdleRetry

----------------------------------------------------------------------------
(* audit.AuditLogger: the client address of an event *)

\* text is a sequence of characters
DigitChars == <<"0", "1", "2", "3", "4", "5", "6", "7", "8", "9">>

RECURSIVE Dec(_)
\* strconv.Itoa of an octet
Dec(n) == IF n < 10 THEN <<DigitChars[n + 1]>> ELSE Dec(n \div 10) \o <<DigitChars[(n % 10) + 1]>>

\* the dotted-quad text of an IPv4 address, as the request carries it
Dotted(o) == Dec(o[1]) \o <<".">> \o Dec(o[2]) \o <<".">> \o Dec(o[3]) \o <<".">> \o Dec(o[4])

Unknown == <<"u", "n", "k", "n", "o", "w", "n">>
Masked == <<"m", "a", "s", "k", "e", "d">>
MaskSuffix == <<".", "x", "x", "x", ".", "x", "x", "x">>

\* maskIP
maskIP(ip) ==
    IF ip = <<>> THEN Unknown
    ELSE IF Len(ip) > 7 THEN SubSeq(ip, 1, 7) \o MaskSuffix
    ELSE Masked

\* the octets of the client addresses: one, two and three digits long
Octets == {7, 10, 192}
ClientAddrs == [1..4 -> Octets]

\* LogEvent with an event whose IPAddress is the text of address o; the
\* latest two events are kept for comparison
LogEvent(o) ==
    LET event == [addr |-> o, IPAddress |-> maskIP(Dotted(o))]
    IN trail' = IF trail = <<>> THEN <<event>>
                ELSE <<trail[Len(trail)], event>>

AuditAtRest == trail = <<>>

----------------------------------------------------------------------------
(* health.DatabaseChecker and health.HealthChecker *)

\* the step of CheckPostgreSQL that fails, if any
PgFailures == {"none", "open", "ping", "version", "stats", "size"}

PgError(failure) ==
    CASE failure = "open" -> "failed to open connection"
      [] failure = "ping" -> "ping failed"
      [] failure = "version" -> "failed to get version"
      [] failure = "stats" -> "failed to get connection stats"
      [] OTHER -> ""

\* CheckPostgreSQL: unhealthy unless every step up to the connection
\* counts succeeds; a failed size query only leaves the size out
CheckPostgreSQL(failure) ==
    [Status |-> IF failure \in {"none", "size"} THEN "healthy" ELSE "unhealthy",
     Error |-> PgError(failure),
     DatabaseSize |-> failure = "none"]

NotConfigured == "Redis not configured"

\* CheckRedis
CheckRedis(redisCache, pingOk, conns) ==
    IF redisCache = "nil"
    THEN [Status |-> "unhealthy", Error |-> NotConfigured, ConnectedClients |-> 0]
    ELSE IF ~pingOk
    THEN [Status |-> "unhealthy", Error |-> "ping failed", ConnectedClients |-> 0]
    ELSE [Status |-> "healthy", Error |-> "", ConnectedClients |-> conns]

\* CheckAll
CheckAll(failure, pingOk, conns) ==
    [postgres |-> CheckPostgreSQL(failure),
     redis |-> CheckRedis(dbChecker.redisCache, pingOk, conns)]

NoProbe ==
    [probe |-> "none", Status |-> "", Uptime |-> 0, ready |-> FALSE,
     Database |-> [postgres |-> CheckPostgreSQL("none"),
                   redis |-> CheckRedis("nil", TRUE, 0)]]

\* HealthChecker.Check
Check(failure, pingOk, conns) ==
    LET Database == CheckAll(failure, pingOk, conns)
        degraded ==
            \/ Database.postgres.Status # "healthy"
            \/ /\ Database.redis.Status # "healthy"
               /\ Database.redis.Error # NotConfigured
    IN /\ health' = [probe |-> "check",
                     Status |-> IF degraded THEN "degraded" ELSE "healthy",
                     Uptime |-> now, ready |-> FALSE, Database |-> Database]
       /\ UNCHANGED <<dbChecker, now>>

\* HealthChecker.Readiness
Readiness(failure) ==
    /\ health' = [NoProbe EXCEPT !.probe = "readiness",
                                 !.ready = CheckPostgreSQL(failure).Status = "healthy"]
    /\ UNCHANGED <<dbChecker, now>>

HealthTick ==
    /\ now < MaxUptime
    /\ now' = now + 1
    /\ UNCHANGED healthVars

\* NewDatabaseChecker and NewHealthChecker at time 0, with a cache or not
HealthInit ==
    /\ dbChecker \in {[redisCache |-> c] : c \in {"nil", "set"}}
    /\ health = NoProbe

HealthAtRest ==
    /\ dbChecker = [redisCache |-> "nil"]
    /\ health = NoProbe

----------------------------------------------------------------------------
(* ratelimit.PerIPLimiter *)

CallerIPs == 1..NCallerIPs

NoPerIP == [ip |-> 0, allowed |-> FALSE, status |-> NoStatus, handlerRan |-> FALSE]

\* GetLimiter: the limiter of the IP, made on first sight
GetLimiter(ip) ==
    IF ip \in DOMAIN perIP THEN perIP
    ELSE [k \in DOMAIN perIP \cup {ip} |->
            IF k = ip THEN [NewLimiter(PerIPRPS, PerIPBurst) EXCEPT !.last = now]
            ELSE perIP[k]]

\* the handler PerIPLimiter.Middleware returns, for a request of ip
PerIPMiddleware(ip) ==
    LET held == GetLimiter(ip)
        a == LimiterAllow(held[ip], now)
    IN /\ perIP' = [held EXCEPT ![ip] = a.lim]
       /\ lastPerIP' = [ip |-> ip, allowed |-> a.ok,
                        status |-> IF a.ok THEN NoStatus ELSE StatusTooManyRequests,
                        handlerRan |-> a.ok]
       /\ UNCHANGED now

\* CleanupStale: clears the map if it holds more than the threshold
CleanupStale ==
    /\ perIP' = IF Cardinality(DOMAIN perIP) > StaleThreshold THEN << >> ELSE perIP
    /\ UNCHANGED <<lastPerIP, now>>

PerIPTick ==
    /\ now < MaxPerIPTicks
    /\ now' = now + 1
    /\ UNCHANGED perIPVars

\* NewPerIPLimiter
PerIPInit ==
    /\ perIP = << >>
    /\ lastPerIP = NoPerIP

----------------------------------------------------------------------------
(* docker.Manager.GetContainerStats *)

\* the identifiers the runtime API resolves to the container: its name,
\* its short ID, a longer and a shorter prefix of its ID; and one it
\* does not know
ContainerName == <<"t", "r", "a", "e", "f", "i", "k">>
ShortID == [i \in 1..ShortIDLen |-> "a"]
LongerID == ShortID \o <<"b">>
IDPrefix == SubSeq(ShortID, 1, 4)
NoSuchContainer == <<"x">>

Resolves(nameOrID) == nameOrID \in {ContainerName, ShortID, LongerID, IDPrefix}
StatsInputs == {ContainerName, ShortID, LongerID, IDPrefix, NoSuchContainer}

\* a uint64 difference
U64(x) == x % 2^StatBits

\* the container.StatsResponse values the runtime may send
NetworkSamples == {<<>>, <<[RxBytes |-> 1, TxBytes |-> 0]>>,
                   <<[RxBytes |-> 1, TxBytes |-> 1], [RxBytes |-> 1, TxBytes |-> 1]>>}
BlkioSamples == {<<>>, <<[Op |-> "read", Value |-> 1], [Op |-> "write", Value |-> 1],
                        [Op |-> "sync", Value |-> 1]>>}
StatsResponses ==
    [TotalUsage : {1}, PreTotalUsage : 0..1, SystemUsage : {1}, PreSystemUsage : 0..MaxStat,
     Cpus : {2}, Usage : 0..MaxStat, Limit : 0..MaxStat,
     Networks : NetworkSamples, Blkio : BlkioSamples]

RECURSIVE NetworkBytes(_, _)
\* the network loop: the bytes of one direction, added over the networks
NetworkBytes(networks, field) ==
    IF networks = <<>> THEN 0
    ELSE Head(networks)[field] + NetworkBytes(Tail(networks), field)

RECURSIVE BlockBytes(_, _)
\* the block I/O loop: the values of the entries of one operation
BlockBytes(blkio, op) ==
    IF blkio = <<>> THEN 0
    ELSE (IF Head(blkio).Op = op THEN Head(blkio).Value ELSE 0)
            + BlockBytes(Tail(blkio), op)

\* the percentages, rounded down
CPUPercent(st) ==
    IF st.PreSystemUsage # 0 /\ U64(st.SystemUsage - st.PreSystemUsage) > 0
    THEN (U64(st.TotalUsage - st.PreTotalUsage) * st.Cpus * 100)
            \div U64(st.SystemUsage - st.PreSystemUsage)
    ELSE 0

MemoryPercent(st) == IF st.Limit > 0 THEN (st.Usage * 100) \div st.Limit ELSE 0

NoStats ==
    [ID |-> <<>>, CPUPercent |-> 0, MemoryUsage |-> 0, MemoryLimit |-> 0,
     MemoryPercent |-> 0, NetworkRx |-> 0, NetworkTx |-> 0, BlockRead |-> 0,
     BlockWrite |-> 0]

NoStatsCall == [nameOrID |-> <<>>, outcome |-> "none", err |-> "nil", stats |-> NoStats]

PanicSliceBounds == "slice bounds out of range"

\* GetContainerStats: ContainerStats and ContainerInspect of the runtime
\* API, then the result with the identifier cut to its short form
GetContainerStats(nameOrID, st, decodeOk, inspectOk) ==
    /\ lastStats.outcome # "panic"
    /\ lastStats' =
         IF ~Resolves(nameOrID)
         THEN [NoStatsCall EXCEPT !.nameOrID = nameOrID, !.outcome = "error",
                                  !.err = "failed to get container stats"]
         ELSE IF ~decodeOk
         THEN [NoStatsCall EXCEPT !.nameOrID = nameOrID, !.outcome = "error",
                                  !.err = "failed to decode stats"]
         ELSE IF ~inspectOk
         THEN [NoStatsCall EXCEPT !.nameOrID = nameOrID, !.outcome = "error",
                                  !.err = "failed to inspect container"]
         ELSE IF Len(nameOrID) < ShortIDLen
         THEN [NoStatsCall EXCEPT !.nameOrID = nameOrID, !.outcome = "panic",
                                  !.err = PanicSliceBounds]
         ELSE [nameOrID |-> nameOrID, outcome |-> "stats", err |-> "nil",
               stats |-> [ID |-> SubSeq(nameOrID, 1, ShortIDLen),
                          CPUPercent |-> CPUPercent(st),
                          MemoryUsage |-> st.Usage, MemoryLimit |-> st.Limit,
                          MemoryPercent |-> MemoryPercent(st),
                          NetworkRx |-> NetworkBytes(st.Networks, "RxBytes"),
                          NetworkTx |-> NetworkBytes(st.Networks, "TxBytes"),
                          BlockRead |-> BlockBytes(st.Blkio, "read"),
                          BlockWrite |-> BlockBytes(st.Blkio, "write")]]

StatsAtRest == lastStats = NoStatsCall

----------------------------------------------------------------------------
(* whitelist.Manager *)

\* a LoadEntries that builds the list back to front
RECURSIVE LoadEntries_Reversed(_)
LoadEntries_Reversed(sourceRange) ==
    IF sourceRange = <<>> THEN <<>>
    ELSE LoadEntries_Reversed(Tail(sourceRange))
            \o <<IPEntry(Head(sourceRange), "Existing from Traefik config", "system", NoExpiry)>>

RECURSIVE LoadEntries(_)
LoadEntries(sourceRange) ==
    IF sourceRange = <<>> THEN <<>>
    ELSE <<IPEntry(Head(sourceRange), "Existing from Traefik config", "system", NoExpiry)>>
            \o LoadEntries(Tail(sourceRange))

\* loadFromTraefikConfig: a missing file is an empty whitelist
loadFromTraefikConfig(f) ==
    IF ~f.exists THEN <<>> ELSE LoadEntries(f.sourceRange)

\* the sourceRange list updateTraefikConfig builds: the patterns of the
\* entries that are not expired, in order
RECURSIVE SourceRange(_, _)
SourceRange(list, t) ==
    IF list = <<>> THEN <<>>
    ELSE IF Expired(Head(list), t)
         THEN SourceRange(Tail(list), t)
         ELSE <<Head(list).IP>> \o SourceRange(Tail(list), t)

\* updateTraefikConfig: os.WriteFile either replaces the file or fails and
\* leaves it as it was
updateTraefikConfig(list, t, writeOk) ==
    IF writeOk THEN FileOf(SourceRange(list, t)) ELSE file

RECURSIVE WithoutPattern(_, _)
WithoutPattern(list, ip) ==
    IF list = <<>> THEN <<>>
    ELSE IF Head(list).IP # ip
         THEN <<Head(list)>> \o WithoutPattern(Tail(list), ip)
         ELSE WithoutPattern(Tail(list), ip)

\* AddToWhitelist that keeps the appended entry when the write fails
AddToWhitelist_NoRollback(ip, description, addedBy, expiresAt, writeOk) ==
    IF ~validateIPOrCIDR(ip)
    THEN /\ lastCall' = Call("AddToWhitelist", ip, "invalid", 0, FALSE, 0)
         /\ auditEvents' = <<>>
         /\ UNCHANGED <<whitelist, blacklist, file, now>>
    ELSE IF HasPattern(whitelist, ip)
    THEN /\ lastCall' = Call("AddToWhitelist", ip, "duplicate", 0, FALSE, 0)
         /\ auditEvents' = <<>>
         /\ UNCHANGED <<whitelist, blacklist, file, now>>
    ELSE LET appended == Append(whitelist, IPEntry(ip, description, addedBy, expiresAt))
         IN  /\ Len(whitelist) < MaxAllow
             /\ file' = IF writeOk THEN FileOf(SourceRange(appended, now)) ELSE file
             /\ whitelist' = appended
             /\ IF writeOk
                THEN /\ auditEvents' = <<AuditEvent("whitelist_add", addedBy, ip)>>
                     /\ lastCall' = Call("AddToWhitelist", ip, "nil", 1, FALSE, 0)
                ELSE /\ auditEvents' = <<>>
                     /\ lastCall' = Call("AddToWhitelist", ip, "write", 1, TRUE, 0)
             /\ UNCHANGED <<blacklist, now>>

\* AddToWhitelist without the "already exists" loop
AddToWhitelist_NoDupCheck(ip, description, addedBy, expiresAt, writeOk) ==
    IF ~validateIPOrCIDR(ip)
    THEN /\ lastCall' = Call("AddToWhitelist", ip, "invalid", 0, FALSE, 0)
         /\ auditEvents' = <<>>
         /\ UNCHANGED <<whitelist, blacklist, file, now>>
    ELSE LET appended == Append(whitelist, IPEntry(ip, description, addedBy, expiresAt))
         IN  /\ Len(whitelist) < MaxAllow
             /\ file' = IF writeOk THEN FileOf(SourceRange(appended, now)) ELSE file
             /\ IF writeOk
                THEN /\ whitelist' = appended
                     /\ auditEvents' = <<AuditEvent("whitelist_add", addedBy, ip)>>
                     /\ lastCall' = Call("AddToWhitelist", ip, "nil", 1, FALSE, 0)
                ELSE /\ whitelist' = SubSeq(appended, 1, Len(appended) - 1)
                     /\ auditEvents' = <<>>
                     /\ lastCall' = Call("AddToWhitelist", ip, "write", 1, TRUE, 0)
             /\ UNCHANGED <<blacklist, now>>

AddToWhitelist(ip, description, addedBy, expiresAt, writeOk) ==
    IF ~validateIPOrCIDR(ip)
    THEN /\ lastCall' = Call("AddToWhitelist", ip, "invalid", 0, FALSE, 0)
         /\ auditEvents' = <<>>
         /\ UNCHANGED <<whitelist, blacklist, file, now>>
    ELSE IF HasPattern(whitelist, ip)
    THEN /\ lastCall' = Call("AddToWhitelist", ip, "duplicate", 0, FALSE, 0)
         /\ auditEvents' = <<>>
         /\ UNCHANGED <<whitelist, blacklist, file, now>>
    ELSE LET appended == Append(whitelist, IPEntry(ip, description, addedBy, expiresAt))
         IN  /\ Len(whitelist) < MaxAllow
             /\ file' = updateTraefikConfig(appended, now, writeOk)
             /\ IF writeOk
                THEN /\ whitelist' = appended
                     /\ auditEvents' = <<AuditEvent("whitelist_add", addedBy, ip)>>
                     /\ lastCall' = Call("AddToWhitelist", ip, "nil", 1, FALSE, 0)
                ELSE /\ whitelist' = SubSeq(appended, 1, Len(appended) - 1)
                     /\ auditEvents' = <<>>
                     /\ lastCall' = Call("AddToWhitelist", ip, "write", 1, TRUE, 0)
             /\ UNCHANGED <<blacklist, now>>

RemoveFromWhitelist(ip, removedBy, writeOk) ==
    IF ~HasPattern(whitelist, ip)
    THEN /\ lastCall' = Call("RemoveFromWhitelist", ip, "notfound", 0, FALSE, 0)
         /\ auditEvents' = <<>>
         /\ UNCHANGED <<whitelist, blacklist, file, now>>
    ELSE LET newWhitelist == WithoutPattern(whitelist, ip)
         IN  /\ whitelist' = newWhitelist
             /\ file' = updateTraefikConfig(newWhitelist, now, writeOk)
             /\ IF writeOk
                THEN /\ auditEvents' = <<AuditEvent("whitelist_remove", removedBy, ip)>>
                     /\ lastCall' = Call("RemoveFromWhitelist", ip, "nil", 1, FALSE, 0)
                ELSE /\ auditEvents' = <<>>
                     /\ lastCall' = Call("RemoveFromWhitelist", ip, "write", 1, TRUE, 0)
             /\ UNCHANGED <<blacklist, now>>

AddToBlacklist(ip, description, addedBy) ==
    IF ~validateIPOrCIDR(ip)
    THEN /\ lastCall' = Call("AddToBlacklist", ip, "invalid", 0, FALSE, 0)
         /\ auditEvents' = <<>>
         /\ UNCHANGED <<whitelist, blacklist, file, now>>
    ELSE IF HasPattern(blacklist, ip)
    THEN /\ lastCall' = Call("AddToBlacklist", ip, "duplicate", 0, FALSE, 0)
         /\ auditEvents' = <<>>
         /\ UNCHANGED <<whitelist, blacklist, file, now>>
    ELSE /\ Len(blacklist) < MaxDeny
         /\ blacklist' = Append(blacklist, IPEntry(ip, description, addedBy, NoExpiry))
         /\ auditEvents' = <<AuditEvent("blacklist_add", addedBy, ip)>>
         /\ lastCall' = Call("AddToBlacklist", ip, "nil", 0, FALSE, 0)
         /\ UNCHANGED <<whitelist, file, now>>

RemoveFromBlacklist(ip, removedBy) ==
    IF ~HasPattern(blacklist, ip)
    THEN /\ lastCall' = Call("RemoveFromBlacklist", ip, "notfound", 0, FALSE, 0)
         /\ auditEvents' = <<>>
         /\ UNCHANGED <<whitelist, blacklist, file, now>>
    ELSE /\ blacklist' = WithoutPattern(blacklist, ip)
         /\ auditEvents' = <<AuditEvent("blacklist_remove", removedBy, ip)>>
         /\ lastCall' = Call("RemoveFromBlacklist", ip, "nil", 0, FALSE, 0)
         /\ UNCHANGED <<whitelist, file, now>>

\* a cleanup loop that drops every entry that has an expiry at all
RECURSIVE KeptEntries_AnyExpiry(_, _)
KeptEntries_AnyExpiry(list, t) ==
    IF list = <<>> THEN <<>>
    ELSE IF Head(list).ExpiresAt # NoExpiry
         THEN KeptEntries_AnyExpiry(Tail(list), t)
         ELSE <<Head(list)>> \o KeptEntries_AnyExpiry(Tail(list), t)

\* the loop of CleanupExpired: the entries kept, in order
RECURSIVE KeptEntries(_, _)
KeptEntries(list, t) ==
    IF list = <<>> THEN <<>>
    ELSE IF Expired(Head(list), t)
         THEN KeptEntries(Tail(list), t)
         ELSE <<Head(list)>> \o KeptEntries(Tail(list), t)

\* the loop of CleanupExpired: one whitelist_expired event per expired entry
RECURSIVE ExpiredEvents(_, _)
ExpiredEvents(list, t) ==
    IF list = <<>> THEN <<>>
    ELSE IF Expired(Head(list), t)
         THEN <<AuditEvent("whitelist_expired", "system", Head(list).IP)>>
                 \o ExpiredEvents(Tail(list), t)
         ELSE ExpiredEvents(Tail(list), t)

CleanupExpired(writeOk) ==
    LET newWhitelist == KeptEntries(whitelist, now)
        removed == Len(whitelist) - Len(newWhitelist)
    IN  /\ auditEvents' = ExpiredEvents(whitelist, now)
        /\ IF removed > 0
           THEN /\ whitelist' = newWhitelist
                /\ file' = updateTraefikConfig(newWhitelist, now, writeOk)
                /\ lastCall' = Call("CleanupExpired", Garbage, "nil", 1, ~writeOk, removed)
           ELSE /\ lastCall' = Call("CleanupExpired", Garbage, "nil", 0, FALSE, removed)
                /\ UNCHANGED <<whitelist, file>>
        /\ UNCHANGED <<blacklist, now>>

\* IsAllowed, the deny loop: TRUE when some deny entry matches
RECURSIVE BlacklistMatches(_, _)
BlacklistMatches(list, parsedIP) ==
    IF list = <<>> THEN FALSE
    ELSE IF ipMatches(parsedIP, Head(list).IP) THEN TRUE
         ELSE BlacklistMatches(Tail(list), parsedIP)

\* an allow loop without the expiry check
RECURSIVE WhitelistMatches_NoExpiry(_, _, _)
WhitelistMatches_NoExpiry(list, parsedIP, t) ==
    IF list = <<>> THEN FALSE
    ELSE IF ipMatches(parsedIP, Head(list).IP) THEN TRUE
         ELSE WhitelistMatches_NoExpiry(Tail(list), parsedIP, t)

\* IsAllowed, the allow loop: expired entries are skipped
RECURSIVE WhitelistMatches(_, _, _)
WhitelistMatches(list, parsedIP, t) ==
    IF list = <<>> THEN FALSE
    ELSE IF Expired(Head(list), t) THEN WhitelistMatches(Tail(list), parsedIP, t)
         ELSE IF ipMatches(parsedIP, Head(list).IP) THEN TRUE
              ELSE WhitelistMatches(Tail(list), parsedIP, t)

\* IsAllowed that consults the whitelist before the blacklist
IsAllowedAt_AllowFirst(wl, bl, t, ip) ==
    IF ParseIP(ip) = NilIP THEN FALSE
    ELSE IF WhitelistMatches(wl, ParseIP(ip), t) THEN TRUE
         ELSE FALSE

IsAllowedAt(wl, bl, t, ip) ==
    IF ParseIP(ip) = NilIP THEN FALSE
    ELSE IF BlacklistMatches(bl, ParseIP(ip)) THEN FALSE
         ELSE WhitelistMatches(wl, ParseIP(ip), t)

IsAllowed(ip) == IsAllowedAt(whitelist, blacklist, now, ip)

\* time passes between calls
Tick ==
    /\ now < MaxTime
    /\ now' = now + 1
    /\ lastCall' = Call("Tick", Garbage, "nil", 0, FALSE, 0)
    /\ auditEvents' = <<>>
    /\ UNCHANGED <<whitelist, blacklist, file>>
    /\ UNCHANGED notWl

\* NewManager on the file as the previous Manager left it: both lists
\* start empty and the allow list is loaded from the file
NewManager ==
    /\ whitelist' = loadFromTraefikConfig(file)
    /\ blacklist' = <<>>
    /\ auditEvents' = <<>>
    /\ lastCall' = Call("NewManager", Garbage, "nil", 0, FALSE, 0)
    /\ UNCHANGED <<file, now>>

----------------------------------------------------------------------------
(* whitelist.Manager under concurrent callers: every method step by step.
   The events the methods hand to the audit logger are those of the
   whole-call actions above and are not repeated here. *)

\* two goroutines call the Manager at the same time
Threads == {"g1", "g2"}
NoThread == "none"

MutatingOps ==
    {"AddToWhitelist", "RemoveFromWhitelist", "AddToBlacklist",
     "RemoveFromBlacklist", "CleanupExpired"}
ReadingOps == {"GetWhitelist", "IsAllowed"}

\* the writes of the allow list: the entry appended, or the list assigned
AllowOps == {"AddToWhitelist", "RemoveFromWhitelist", "CleanupExpired"}

IdleThread ==
    [pc |-> "idle", op |-> "none", ip |-> Garbage, exp |-> NoExpiry,
     res |-> "nil", local |-> <<>>, buf |-> <<>>, wrote |-> FALSE,
     seen |-> <<>>, rival |-> NoThread]

\* a call that has returned: its locals are gone; the result of a racing
\* AddToWhitelist is kept to be compared with its rival's
Returned(t) ==
    IF th[t].rival = NoThread THEN [IdleThread EXCEPT !.pc = "done"]
    ELSE [IdleThread EXCEPT !.pc = "done", !.op = th[t].op, !.ip = th[t].ip,
                            !.res = th[t].res, !.rival = th[t].rival]

InFlight(t) == th[t].pc \notin {"idle", "done"}

\* a second AddToWhitelist for the pattern another goroutine is about to
\* add, both at the lock, the pattern valid and not in the list and nobody
\* inside a method: the two calls race
RivalOf(t, op, ip) ==
    IF op = "AddToWhitelist" /\ validateIPOrCIDR(ip) /\ ~HasPattern(whitelist, ip)
         /\ mu.writer = NoThread
         /\ \E u \in Threads \ {t} :
               th[u].pc = "lock" /\ th[u].op = op /\ th[u].ip = ip /\ th[u].rival = NoThread
    THEN CHOOSE u \in Threads \ {t} :
               th[u].pc = "lock" /\ th[u].op = op /\ th[u].ip = ip /\ th[u].rival = NoThread
    ELSE NoThread

\* a goroutine calls a method of the Manager and arrives at the lock
CallOp(t, op, ip, exp) ==
    LET rival == RivalOf(t, op, ip)
    IN /\ ~InFlight(t)
       /\ op = "AddToWhitelist" =>
             Len(whitelist) + Cardinality({u \in Threads : InFlight(u) /\ th[u].op = op}) < MaxAllow
       /\ op = "AddToBlacklist" =>
             Len(blacklist) + Cardinality({u \in Threads : InFlight(u) /\ th[u].op = op}) < MaxDeny
       /\ th' = [u \in Threads |->
                   IF u = t
                   THEN [IdleThread EXCEPT !.pc = "lock", !.op = op, !.ip = ip,
                                           !.exp = exp, !.rival = rival]
                   ELSE IF u = rival THEN [th[u] EXCEPT !.rival = t]
                   ELSE IF th[u].rival = t THEN [th[u] EXCEPT !.rival = NoThread]
                   ELSE th[u]]
       /\ UNCHANGED <<mu, wlVars, now>>

\* a Lock that does not wait for the holder
MuLock_NoWait(t) ==
    /\ th[t].pc = "lock"
    /\ th[t].op \in MutatingOps
    /\ mu' = [mu EXCEPT !.writer = t]
    /\ th' = [th EXCEPT ![t].pc = "check"]
    /\ UNCHANGED <<wlVars, now>>

\* m.mu.Lock(): waits until no writer and no reader holds the lock
MuLock(t) ==
    /\ th[t].pc = "lock"
    /\ th[t].op \in MutatingOps
    /\ mu.writer = NoThread
    /\ mu.readers = {}
    /\ mu' = [mu EXCEPT !.writer = t]
    /\ th' = [th EXCEPT ![t].pc = "check"]
    /\ UNCHANGED <<wlVars, now>>

\* an RLock that does not wait for the writer
MuRLock_NoWait(t) ==
    /\ th[t].pc = "lock"
    /\ th[t].op \in ReadingOps
    /\ mu' = [mu EXCEPT !.readers = @ \cup {t}]
    /\ th' = [th EXCEPT ![t].pc = "read"]
    /\ UNCHANGED <<wlVars, now>>

\* m.mu.RLock(): waits until no writer holds the lock
MuRLock(t) ==
    /\ th[t].pc = "lock"
    /\ th[t].op \in ReadingOps
    /\ mu.writer = NoThread
    /\ mu' = [mu EXCEPT !.readers = @ \cup {t}]
    /\ th' = [th EXCEPT ![t].pc = "read"]
    /\ UNCHANGED <<wlVars, now>>

\* the error a method returns before it changes anything, "nil" if none
CheckErr(t) ==
    LET op == th[t].op
        ip == th[t].ip
    IN CASE op = "AddToWhitelist" ->
              IF ~validateIPOrCIDR(ip) THEN "invalid"
              ELSE IF HasPattern(whitelist, ip) THEN "duplicate" ELSE "nil"
         [] op = "AddToBlacklist" ->
              IF ~validateIPOrCIDR(ip) THEN "invalid"
              ELSE IF HasPattern(blacklist, ip) THEN "duplicate" ELSE "nil"
         [] op = "RemoveFromWhitelist" ->
              IF ~HasPattern(whitelist, ip) THEN "notfound" ELSE "nil"
         [] op = "RemoveFromBlacklist" ->
              IF ~HasPattern(blacklist, ip) THEN "notfound" ELSE "nil"
         [] OTHER -> "nil"

\* the list a method builds before it assigns it
NewList(t) ==
    CASE th[t].op = "RemoveFromWhitelist" -> WithoutPattern(whitelist, th[t].ip)
      [] th[t].op = "RemoveFromBlacklist" -> WithoutPattern(blacklist, th[t].ip)
      [] th[t].op = "CleanupExpired" -> KeptEntries(whitelist, now)
      [] OTHER -> <<>>

\* the first part of a mutating method: validation, the "already exists"
\* loop, the find-and-remove loop, the loop of CleanupExpired
CheckStep(t) ==
    LET err == CheckErr(t)
        nothingExpired == th[t].op = "CleanupExpired" /\ Len(NewList(t)) = Len(whitelist)
    IN /\ th[t].pc = "check"
       /\ th' = [th EXCEPT ![t].res = err, ![t].local = NewList(t),
                           ![t].pc = IF err # "nil" \/ nothingExpired THEN "unlock"
                                     ELSE "change"]
       /\ UNCHANGED <<mu, whitelist, blacklist, file, auditEvents, lastCall, now>>

\* the change in memory: the entry appended or the new list assigned; the
\* deny-list methods have no file to write and are done
ChangeStep(t) ==
    LET op == th[t].op
        entry == IPEntry(th[t].ip, "eng laptop", "admin", th[t].exp)
    IN /\ th[t].pc = "change"
       /\ whitelist' = CASE op = "AddToWhitelist" -> Append(whitelist, entry)
                         [] op \in {"RemoveFromWhitelist", "CleanupExpired"} -> th[t].local
                         [] OTHER -> whitelist
       /\ blacklist' = CASE op = "AddToBlacklist" ->
                               Append(blacklist, [entry EXCEPT !.ExpiresAt = NoExpiry])
                         [] op = "RemoveFromBlacklist" -> th[t].local
                         [] OTHER -> blacklist
       /\ th' = [th EXCEPT ![t].pc = IF op \in AllowOps THEN "write" ELSE "unlock"]
       /\ UNCHANGED <<mu, file, auditEvents, lastCall, now>>

\* updateTraefikConfig builds the sourceRange list and os.WriteFile begins
WriteBegin(t) ==
    /\ th[t].pc = "write"
    /\ th' = [th EXCEPT ![t].pc = "writing", ![t].buf = SourceRange(whitelist, now)]
    /\ UNCHANGED <<mu, wlVars, now>>

\* os.WriteFile ends: the file is replaced, or the write has failed
WriteEnd(t, writeOk) ==
    /\ th[t].pc = "writing"
    /\ file' = IF writeOk THEN FileOf(th[t].buf) ELSE file
    /\ th' = [th EXCEPT ![t].pc = "after", ![t].wrote = writeOk]
    /\ UNCHANGED <<mu, whitelist, blacklist, auditEvents, lastCall, now>>

\* after the write: AddToWhitelist rolls back on failure, RemoveFromWhitelist
\* only returns the error, CleanupExpired ignores it
AfterWrite(t) ==
    LET op == th[t].op
        failed == ~th[t].wrote /\ op # "CleanupExpired"
    IN /\ th[t].pc = "after"
       /\ whitelist' = IF op = "AddToWhitelist" /\ ~th[t].wrote
                       THEN SubSeq(whitelist, 1, Len(whitelist) - 1)
                       ELSE whitelist
       /\ th' = [th EXCEPT ![t].pc = "unlock",
                           ![t].res = IF failed THEN "write" ELSE "nil"]
       /\ UNCHANGED <<mu, blacklist, file, auditEvents, lastCall, now>>

\* the deferred m.mu.Unlock(), and the method returns
MuUnlock(t) ==
    /\ th[t].pc = "unlock"
    /\ th[t].op \in MutatingOps
    /\ mu' = [mu EXCEPT !.writer = NoThread]
    /\ th' = [th EXCEPT ![t] = Returned(t)]
    /\ UNCHANGED <<wlVars, now>>

\* GetWhitelist copies the list; IsAllowed runs its two loops
ReadStep(t) ==
    /\ th[t].pc = "read"
    /\ th' = [th EXCEPT ![t].pc = "unlock",
                        ![t].seen = IF th[t].op = "GetWhitelist" THEN whitelist ELSE <<>>,
                        ![t].res = IF th[t].op = "IsAllowed"
                                   THEN (IF IsAllowed(th[t].ip) THEN "true" ELSE "false")
                                   ELSE "nil"]
    /\ UNCHANGED <<mu, wlVars, now>>

\* the deferred m.mu.RUnlock(), and the method returns
MuRUnlock(t) ==
    /\ th[t].pc = "unlock"
    /\ th[t].op \in ReadingOps
    /\ mu' = [mu EXCEPT !.readers = @ \ {t}]
    /\ th' = [th EXCEPT ![t] = Returned(t)]
    /\ UNCHANGED <<wlVars, now>>

\* time passes
MuTick ==
    /\ now < MuMaxTime
    /\ now' = now + 1
    /\ UNCHANGED <<muVars, wlVars>>

MuInit ==
    /\ mu = [writer |-> NoThread, readers |-> {}]
    /\ th = [t \in Threads |-> IdleThread]

\* the remaining components, as constructed and left alone
AuxAtRest ==
    /\ RetryAtRest
    /\ AuditAtRest
    /\ HealthAtRest
    /\ PerIPInit
    /\ StatsAtRest
    /\ MuInit

\* NewManager: the file is missing or was left by an earlier run
InitFiles == {NoFile, FileOf(<<LoadedPattern>>)}

Init ==
    /\ now = 0
    /\ file \in InitFiles
    /\ whitelist = loadFromTraefikConfig(file)
    /\ blacklist = <<>>
    /\ auditEvents = <<>>
    /\ lastCall = Call("NewManager", Garbage, "nil", 0, FALSE, 0)
    /\ BreakerInit
    /\ LimiterAtRest
    /\ ControlAtRest
    /\ HttpInit
    /\ AuxAtRest

DoAddToWhitelist ==
    /\ \E ip \in PatternInputs, d \in Descriptions, by \in Actors,
          exp \in ExpiryInputs, writeOk \in BOOLEAN :
           AddToWhitelist(ip, d, by, exp, writeOk)
    /\ UNCHANGED notWl

DoRemoveFromWhitelist ==
    /\ \E ip \in RemovalInputs, by \in Actors, writeOk \in BOOLEAN :
           RemoveFromWhitelist(ip, by, writeOk)
    /\ UNCHANGED notWl

DoAddToBlacklist ==
    /\ \E ip \in DenyInputs, d \in Descriptions, by \in Actors :
           AddToBlacklist(ip, d, by)
    /\ UNCHANGED notWl

DoRemoveFromBlacklist ==
    /\ \E ip \in DenyInputs, by \in Actors : RemoveFromBlacklist(ip, by)
    /\ UNCHANGED notWl

DoCleanupExpired ==
    /\ \E writeOk \in BOOLEAN : CleanupExpired(writeOk)
    /\ UNCHANGED notWl

Next ==
    \/ DoAddToWhitelist
    \/ DoRemoveFromWhitelist
    \/ DoAddToBlacklist
    \/ DoRemoveFromBlacklist
    \/ DoCleanupExpired
    \/ Tick

Spec == Init /\ [][Next]_vars

\* the access lists across restarts of the process
DoNewManager == NewManager /\ UNCHANGED notWl

NextReload ==
    \/ DoAddToWhitelist
    \/ DoRemoveFromWhitelist
    \/ DoCleanupExpired
    \/ Tick
    \/ DoNewManager

SpecReload == Init /\ [][NextReload]_vars

\* the breaker on its own: the access lists stay as constructed
InitBreaker ==
    /\ now = 0
    /\ file = NoFile
    /\ whitelist = loadFromTraefikConfig(file)
    /\ blacklist = <<>>
    /\ auditEvents = <<>>
    /\ lastCall = Call("NewManager", Garbage, "nil", 0, FALSE, 0)
    /\ BreakerInit
    /\ LimiterAtRest
    /\ ControlAtRest
    /\ HttpInit
    /\ AuxAtRest

DoExecuteContext ==
    /\ \E c \in Callers, cancelled \in BOOLEAN : ExecuteContext(c, cancelled)
    /\ UNCHANGED notCb

DoExecuteBefore ==
    /\ \E c \in Callers : ExecuteBefore(c)
    /\ UNCHANGED notCb

DoExecuteAfter ==
    /\ \E c \in Callers, err \in FnResults : ExecuteAfter(c, err)
    /\ UNCHANGED notCb

DoReceive ==
    /\ \E c \in Callers : Receive(c)
    /\ UNCHANGED notCb

DoCancel ==
    /\ \E c \in Callers : Cancel(c)
    /\ UNCHANGED notCb

DoFinish ==
    /\ \E c \in Callers : Finish(c)
    /\ UNCHANGED notCb

DoState == State /\ UNCHANGED notCb

DoBreakerTick == BreakerTick /\ UNCHANGED notCb

NextBreaker ==
    \/ DoExecuteContext
    \/ DoExecuteBefore
    \/ DoExecuteAfter
    \/ DoReceive
    \/ DoCancel
    \/ DoFinish
    \/ DoState
    \/ DoBreakerTick

SpecBreaker == InitBreaker /\ [][NextBreaker]_vars

\* the breaker as FailureThreshold failed calls at time 0 leave it: Open,
\* second generation, the cooldown running. The calls that follow are the
\* ones of the HalfOpen phase.
TrippedBreaker ==
    SetState(ToNewGeneration(
                [state |-> "closed", generation |-> 0, counts |-> ZeroCounts,
                 expiry |-> NoTime], 0), "open", 0)

InitTripped ==
    /\ now = 0
    /\ file = NoFile
    /\ whitelist = loadFromTraefikConfig(file)
    /\ blacklist = <<>>
    /\ auditEvents = <<>>
    /\ lastCall = Call("NewManager", Garbage, "nil", 0, FALSE, 0)
    /\ cb = TrippedBreaker
    /\ calls = [c \in Callers |-> IdleCall]
    /\ lastRet = "none"
    /\ started = 0
    /\ failRun = 0
    /\ windowRun = 0
    /\ trial = NoTrial
    /\ LimiterAtRest
    /\ ControlAtRest
    /\ HttpInit
    /\ AuxAtRest

SpecTripped == InitTripped /\ [][NextBreaker]_vars

\* the limiter on its own
InitLimiter ==
    /\ now = 0
    /\ file = NoFile
    /\ whitelist = loadFromTraefikConfig(file)
    /\ blacklist = <<>>
    /\ auditEvents = <<>>
    /\ lastCall = Call("NewManager", Garbage, "nil", 0, FALSE, 0)
    /\ BreakerInit
    /\ LimiterInit
    /\ ControlAtRest
    /\ HttpInit
    /\ AuxAtRest

DoAllow ==
    /\ \E c \in Clients, tier \in Tiers, cacheOk \in BOOLEAN : Allow(c, tier, cacheOk)
    /\ UNCHANGED notRl

DoMiddleware ==
    /\ \E c \in Clients, expireOk \in BOOLEAN : Middleware(c, expireOk)
    /\ UNCHANGED notRl

DoLimiterTick == LimiterTick /\ UNCHANGED notRl

NextLimiter ==
    \/ DoAllow
    \/ DoMiddleware
    \/ DoLimiterTick

SpecLimiter == InitLimiter /\ [][NextLimiter]_vars

\* the gRPC server in front of the whitelist and docker managers
InitGrpc ==
    /\ now = 0
    /\ file \in InitFiles
    /\ whitelist = loadFromTraefikConfig(file)
    /\ blacklist = <<>>
    /\ auditEvents = <<>>
    /\ lastCall = Call("NewManager", Garbage, "nil", 0, FALSE, 0)
    /\ BreakerInit
    /\ LimiterAtRest
    /\ ControlInit
    /\ HttpInit
    /\ AuxAtRest

\* the patterns the gRPC requests carry
RpcInputs == {IPText(1), CIDRText(1, 1)}

\* WhitelistServiceServer.AddToWhitelist
RpcAddToWhitelist ==
    /\ \E cred \in Credentials, ip \in RpcInputs, d \in Descriptions, by \in Actors,
          writeOk \in BOOLEAN :
           /\ Dispatch("AddToWhitelist", cred)
           /\ AddToWhitelist(ip, d, by, NoExpiry, writeOk)
    /\ UNCHANGED <<cbVars, rlVars, httpVars, auxVars, containers, lastDocker>>

\* WhitelistServiceServer.RemoveFromWhitelist
RpcRemoveFromWhitelist ==
    /\ \E cred \in Credentials, ip \in RpcInputs, writeOk \in BOOLEAN :
           /\ Dispatch("RemoveFromWhitelist", cred)
           /\ RemoveFromWhitelist(ip, "grpc-api", writeOk)
    /\ UNCHANGED <<cbVars, rlVars, httpVars, auxVars, containers, lastDocker>>

\* WhitelistServiceServer.AddToBlacklist
RpcAddToBlacklist ==
    /\ \E cred \in Credentials, ip \in RpcInputs, d \in Descriptions, by \in Actors :
           /\ Dispatch("AddToBlacklist", cred)
           /\ AddToBlacklist(ip, d, by)
    /\ UNCHANGED <<cbVars, rlVars, httpVars, auxVars, containers, lastDocker>>

\* WhitelistServiceServer.RemoveFromBlacklist
RpcRemoveFromBlacklist ==
    /\ \E cred \in Credentials, ip \in RpcInputs :
           /\ Dispatch("RemoveFromBlacklist", cred)
           /\ RemoveFromBlacklist(ip, "grpc-api")
    /\ UNCHANGED <<cbVars, rlVars, httpVars, auxVars, containers, lastDocker>>

\* WhitelistServiceServer.CleanupExpired
RpcCleanupExpired ==
    /\ \E cred \in Credentials, writeOk \in BOOLEAN :
           /\ Dispatch("CleanupExpired", cred)
           /\ CleanupExpired(writeOk)
    /\ UNCHANGED <<cbVars, rlVars, httpVars, auxVars, containers, lastDocker>>

\* DockerServiceServer.StartContainer
RpcStartContainer ==
    /\ \E cred \in Credentials, id \in ContainerIds, apiOk \in BOOLEAN :
           /\ Dispatch("StartContainer", cred)
           /\ StartContainer(id, apiOk)
    /\ UNCHANGED <<wlVars, now, cbVars, rlVars, httpVars, auxVars>>

\* DockerServiceServer.StopContainer
RpcStopContainer ==
    /\ \E cred \in Credentials, id \in ContainerIds, apiOk \in BOOLEAN :
           /\ Dispatch("StopContainer", cred)
           /\ StopContainer(id, apiOk)
    /\ UNCHANGED <<wlVars, now, cbVars, rlVars, httpVars, auxVars>>

\* DockerServiceServer.RestartContainer
RpcRestartContainer ==
    /\ \E cred \in Credentials, id \in ContainerIds, apiOk \in BOOLEAN :
           /\ Dispatch("RestartContainer", cred)
           /\ RestartContainer(id, apiOk)
    /\ UNCHANGED <<wlVars, now, cbVars, rlVars, httpVars, auxVars>>

NextGrpc ==
    \/ RpcAddToWhitelist
    \/ RpcRemoveFromWhitelist
    \/ RpcAddToBlacklist
    \/ RpcRemoveFromBlacklist
    \/ RpcCleanupExpired
    \/ RpcStartContainer
    \/ RpcStopContainer
    \/ RpcRestartContainer

SpecGrpc == InitGrpc /\ [][NextGrpc]_vars

\* the HTTP client in front of its breaker
DoHttpDo ==
    /\ \E c \in Callers, cancelled \in BOOLEAN : HttpDo(c, cancelled)
    /\ UNCHANGED notHttp

DoHttpExecuteBefore ==
    /\ ~crashed
    /\ \E c \in Callers : ExecuteBefore(c)
    /\ UNCHANGED <<notHttp, httpVars>>

DoHttpFnReturns ==
    /\ \E c \in Callers, err \in FnResults : HttpFnReturns(c, err)
    /\ UNCHANGED notHttp

DoHttpFnPanics ==
    /\ \E c \in Callers : HttpFnPanics(c)
    /\ UNCHANGED notHttp

DoHttpReceive ==
    /\ \E c \in Callers : HttpReceive(c)
    /\ UNCHANGED notHttp

DoHttpCancel ==
    /\ \E c \in Callers : HttpCancel(c)
    /\ UNCHANGED notHttp

DoHttpFinish ==
    /\ ~crashed
    /\ \E c \in Callers : Finish(c)
    /\ UNCHANGED <<notHttp, httpVars>>

DoHttpTick ==
    /\ ~crashed
    /\ BreakerTick
    /\ UNCHANGED <<notHttp, httpVars>>

NextHttp ==
    \/ DoHttpDo
    \/ DoHttpExecuteBefore
    \/ DoHttpFnReturns
    \/ DoHttpFnPanics
    \/ DoHttpReceive
    \/ DoHttpCancel
    \/ DoHttpFinish
    \/ DoHttpTick

SpecHttp == InitBreaker /\ [][NextHttp]_vars

\* the retrying client on its own
InitRetry ==
    /\ now = 0
    /\ file = NoFile
    /\ whitelist = loadFromTraefikConfig(file)
    /\ blacklist = <<>>
    /\ auditEvents = <<>>
    /\ lastCall = Call("NewManager", Garbage, "nil", 0, FALSE, 0)
    /\ BreakerInit
    /\ LimiterAtRest
    /\ ControlAtRest
    /\ HttpInit
    /\ RetryInit
    /\ AuditAtRest
    /\ HealthAtRest
    /\ PerIPInit
    /\ StatsAtRest
    /\ MuInit

notRetry == <<wlVars, cbVars, rlVars, ctlVars, httpVars, trail, healthVars, perIPVars, lastStats, muVars>>

DoRetryDo ==
    /\ \E cancelled \in BOOLEAN : RetryDo(cancelled)
    /\ UNCHANGED notRetry

DoRetryAttempt ==
    /\ \E o \in Outcomes, cancelledMeanwhile \in BOOLEAN : RetryAttempt(o, cancelledMeanwhile)
    /\ UNCHANGED notRetry

DoRetryTimer == RetryTimer /\ UNCHANGED notRetry

DoRetryCtxDone == RetryCtxDone /\ UNCHANGED notRetry

DoRetryCancel == RetryCancel /\ UNCHANGED notRetry

DoRetryTick == RetryTick /\ UNCHANGED notRetry

NextRetry ==
    \/ DoRetryDo
    \/ DoRetryAttempt
    \/ DoRetryTimer
    \/ DoRetryCtxDone
    \/ DoRetryCancel
    \/ DoRetryTick

SpecRetry == InitRetry /\ [][NextRetry]_vars

\* the audit logger on its own
DoLogEvent ==
    /\ \E o \in ClientAddrs : LogEvent(o)
    /\ UNCHANGED <<wlVars, now, cbVars, rlVars, ctlVars, httpVars, retryVars, healthVars, perIPVars, lastStats, muVars>>

NextAudit == DoLogEvent

SpecAudit == InitBreaker /\ [][NextAudit]_vars

\* the health checker on its own
InitHealth ==
    /\ now = 0
    /\ file = NoFile
    /\ whitelist = loadFromTraefikConfig(file)
    /\ blacklist = <<>>
    /\ auditEvents = <<>>
    /\ lastCall = Call("NewManager", Garbage, "nil", 0, FALSE, 0)
    /\ BreakerInit
    /\ LimiterAtRest
    /\ ControlAtRest
    /\ HttpInit
    /\ RetryAtRest
    /\ AuditAtRest
    /\ HealthInit
    /\ PerIPInit
    /\ StatsAtRest
    /\ MuInit

notHealth == <<wlVars, cbVars, rlVars, ctlVars, httpVars, retryVars, trail, perIPVars, lastStats, muVars>>

DoCheck ==
    /\ \E failure \in PgFailures, pingOk \in BOOLEAN, conns \in 0..MaxConns :
           Check(failure, pingOk, conns)
    /\ UNCHANGED notHealth

DoReadiness ==
    /\ \E failure \in PgFailures : Readiness(failure)
    /\ UNCHANGED notHealth

DoHealthTick == HealthTick /\ UNCHANGED notHealth

NextHealth ==
    \/ DoCheck
    \/ DoReadiness
    \/ DoHealthTick

SpecHealth == InitHealth /\ [][NextHealth]_vars

\* the per-IP limiter on its own, CleanupStale being called at any time
notPerIP == <<wlVars, cbVars, rlVars, ctlVars, httpVars, retryVars, trail, healthVars, lastStats, muVars>>

DoPerIPMiddleware ==
    /\ \E ip \in CallerIPs : PerIPMiddleware(ip)
    /\ UNCHANGED notPerIP

DoCleanupStale == CleanupStale /\ UNCHANGED notPerIP

DoPerIPTick == PerIPTick /\ UNCHANGED notPerIP

NextPerIP ==
    \/ DoPerIPMiddleware
    \/ DoCleanupStale
    \/ DoPerIPTick

SpecPerIP == InitBreaker /\ [][NextPerIP]_vars

\* the statistics of the docker Manager on their own
DoGetContainerStats ==
    /\ \E nameOrID \in StatsInputs, st \in StatsResponses, decodeOk \in BOOLEAN,
          inspectOk \in BOOLEAN : GetContainerStats(nameOrID, st, decodeOk, inspectOk)
    /\ UNCHANGED <<wlVars, now, cbVars, rlVars, ctlVars, httpVars, retryVars, trail,
                   healthVars, perIPVars, muVars>>

NextStats == DoGetContainerStats

SpecStats == InitBreaker /\ [][NextStats]_vars

\* the whitelist Manager, empty at the start, called by several goroutines
notMu == <<cbVars, rlVars, ctlVars, httpVars, retryVars, trail, healthVars, perIPVars,
           lastStats>>

MuAllowInputs == {Garbage, IPText(1), CIDRText(1, 1)}
MuDenyInputs == {IPText(1)}
MuExpiryInputs == {NoExpiry, MuMaxTime - 1}

DoCallAllow ==
    /\ \E t \in Threads, op \in {"AddToWhitelist", "RemoveFromWhitelist"},
          ip \in MuAllowInputs, exp \in MuExpiryInputs :
           /\ op = "RemoveFromWhitelist" => exp = NoExpiry
           /\ CallOp(t, op, ip, exp)
    /\ UNCHANGED notMu

DoCallDeny ==
    /\ \E t \in Threads, op \in {"AddToBlacklist", "RemoveFromBlacklist"},
          ip \in MuDenyInputs : CallOp(t, op, ip, NoExpiry)
    /\ UNCHANGED notMu

DoCallCleanup ==
    /\ \E t \in Threads : CallOp(t, "CleanupExpired", Garbage, NoExpiry)
    /\ UNCHANGED notMu

DoCallRead ==
    /\ \E t \in Threads, op \in ReadingOps : CallOp(t, op, IPText(1), NoExpiry)
    /\ UNCHANGED notMu

DoMuLock == (\E t \in Threads : MuLock(t)) /\ UNCHANGED notMu

DoMuRLock == (\E t \in Threads : MuRLock(t)) /\ UNCHANGED notMu

DoCheckStep == (\E t \in Threads : CheckStep(t)) /\ UNCHANGED notMu

DoChangeStep == (\E t \in Threads : ChangeStep(t)) /\ UNCHANGED notMu

DoWriteBegin == (\E t \in Threads : WriteBegin(t)) /\ UNCHANGED notMu

DoWriteEnd == (\E t \in Threads, writeOk \in BOOLEAN : WriteEnd(t, writeOk)) /\ UNCHANGED notMu

DoAfterWrite == (\E t \in Threads : AfterWrite(t)) /\ UNCHANGED notMu

DoMuUnlock == (\E t \in Threads : MuUnlock(t)) /\ UNCHANGED notMu

DoReadStep == (\E t \in Threads : ReadStep(t)) /\ UNCHANGED notMu

DoMuRUnlock == (\E t \in Threads : MuRUnlock(t)) /\ UNCHANGED notMu

DoMuTick == MuTick /\ UNCHANGED notMu

NextMu ==
    \/ DoCallAllow
    \/ DoCallDeny
    \/ DoCallCleanup
    \/ DoCallRead
    \/ DoMuLock
    \/ DoMuRLock
    \/ DoCheckStep
    \/ DoChangeStep
    \/ DoWriteBegin
    \/ DoWriteEnd
    \/ DoAfterWrite
    \/ DoMuUnlock
    \/ DoReadStep
    \/ DoMuRUnlock
    \/ DoMuTick

SpecMu == InitBreaker /\ [][NextMu]_vars

----------------------------------------------------------------------------
(* Properties of whitelist.Manager *)

\* what a pattern denotes, stated on the text: an address literal denotes
\* its address, a CIDR literal the addresses sharing its leading plen bits
Covers(pattern, a) ==
    \/ pattern.kind \in {"ip", "mapped"} /\ a = pattern.addr
    \/ /\ pattern.kind = "cidr"
       /\ a \div (2^(AddrBits - pattern.plen)) = pattern.addr \div (2^(AddrBits - pattern.plen))

IsAddress(ip) == ip.kind \in {"ip", "mapped"}

DenyCovers(ip) ==
    \E i \in 1..Len(blacklist) :
        \/ blacklist[i].IP = ip
        \/ IsAddress(ip) /\ Covers(blacklist[i].IP, ip.addr)

LiveAllowCovers(ip) ==
    \E i \in 1..Len(whitelist) :
        /\ ~(whitelist[i].ExpiresAt # NoExpiry /\ whitelist[i].ExpiresAt < now)
        /\ IsAddress(ip) /\ Covers(whitelist[i].IP, ip.addr)

\* C1: in every reachable state, an ip that equals or is contained in a
\* pattern of the deny list is not allowed, whatever the allow list holds.
C1_DenyPrecedence == \A ip \in Strings : DenyCovers(ip) => ~IsAllowed(ip)

\* an address covered by a live allow entry and by a deny entry, and refused
C1_Witness ==
    \E ip \in Strings : DenyCovers(ip) /\ LiveAllowCovers(ip) /\ ~IsAllowed(ip)

Patterns(list) == [i \in 1..Len(list) |-> list[i].IP]

\* C2: whenever no call is in progress and no allow entry carries an expiry,
\* the sourceRange of the file equals the patterns of the in-memory allow
\* list, whether the file writes succeeded or failed.
C2_FileMatchesMemory ==
    (\A i \in 1..Len(whitelist) : whitelist[i].ExpiresAt = NoExpiry)
        => file.sourceRange = Patterns(whitelist)

\* C3: an AddToWhitelist whose file write fails returns an error and leaves
\* the allow list and the deny list exactly as they were.
C3_AddRollsBack ==
    [][(lastCall'.op = "AddToWhitelist" /\ lastCall'.writeFailed)
         => /\ lastCall'.err # "nil"
            /\ whitelist' = whitelist
            /\ blacklist' = blacklist]_vars

\* an AddToWhitelist of a new pattern has just failed on the write
C3_Witness ==
    /\ lastCall.op = "AddToWhitelist"
    /\ lastCall.writeFailed
    /\ lastCall.err = "write"
    /\ ~HasPattern(whitelist, lastCall.ip)

\* C4: a RemoveFromWhitelist whose file write fails returns an error and
\* leaves the allow list, with the entry for the pattern, as it was.
C4_RemoveRollsBack ==
    [][(lastCall'.op = "RemoveFromWhitelist" /\ lastCall'.writeFailed)
         => /\ lastCall'.err # "nil"
            /\ whitelist' = whitelist]_vars

\* C5: adding a pattern that is already in the same list fails, changes
\* neither list nor the file, writes nothing and emits no audit event.
C5_DuplicateAddRejected ==
    [][(\/ lastCall'.op = "AddToWhitelist" /\ HasPattern(whitelist, lastCall'.ip)
        \/ lastCall'.op = "AddToBlacklist" /\ HasPattern(blacklist, lastCall'.ip))
         => /\ lastCall'.err # "nil"
            /\ whitelist' = whitelist
            /\ blacklist' = blacklist
            /\ file' = file
            /\ lastCall'.writes = 0
            /\ auditEvents' = <<>>]_vars

\* a duplicate add to the allow list has just been refused
C5_Witness ==
    /\ lastCall.op = "AddToWhitelist"
    /\ lastCall.err = "duplicate"
    /\ HasPattern(whitelist, lastCall.ip)

\* the reference decision: unparsable -> false; covered by a deny entry ->
\* false; covered by a non-expired allow entry -> true; otherwise false
RefAllowed(ip) ==
    IF ~IsAddress(ip) THEN FALSE
    ELSE IF \E i \in 1..Len(blacklist) :
                /\ ~(blacklist[i].ExpiresAt # NoExpiry /\ blacklist[i].ExpiresAt < now)
                /\ Covers(blacklist[i].IP, ip.addr)
         THEN FALSE
         ELSE LiveAllowCovers(ip)

\* C6: for every input string, IsAllowed returns the reference decision.
C6_IsAllowedIsReference == \A ip \in Strings : IsAllowed(ip) = RefAllowed(ip)

\* one address is allowed, one is refused by the deny list, and an expired
\* allow entry is still in the list
C6_Witness ==
    /\ \E ip \in Strings : IsAllowed(ip)
    /\ \E ip \in Strings : IsAddress(ip) /\ DenyCovers(ip) /\ ~IsAllowed(ip)
    /\ \E i \in 1..Len(whitelist) :
           whitelist[i].ExpiresAt # NoExpiry /\ whitelist[i].ExpiresAt < now

\* C7: an allow entry with an expiry allows the addresses it covers at every
\* time up to expiresAt (unless a deny entry covers them) and stops allowing
\* them at every later time, while it is still in the list (no cleanup).
C7_ExpiryTakesEffect ==
    \A i \in 1..Len(whitelist) :
        whitelist[i].ExpiresAt # NoExpiry =>
            \A ip \in Strings :
                (IsAddress(ip) /\ Covers(whitelist[i].IP, ip.addr)) =>
                    /\ (now <= whitelist[i].ExpiresAt /\ ~DenyCovers(ip)) => IsAllowed(ip)
                    /\ (/\ now > whitelist[i].ExpiresAt
                        /\ \A j \in 1..Len(whitelist) :
                              (j # i /\ Covers(whitelist[j].IP, ip.addr))
                                  => (whitelist[j].ExpiresAt # NoExpiry
                                        /\ whitelist[j].ExpiresAt < now))
                          => ~IsAllowed(ip)

\* the clock has passed the expiry of an entry that no cleanup has removed,
\* and an address it covers is refused
C7_Witness ==
    \E i \in 1..Len(whitelist) :
        /\ whitelist[i].ExpiresAt # NoExpiry
        /\ now > whitelist[i].ExpiresAt
        /\ \E ip \in Strings :
               IsAddress(ip) /\ Covers(whitelist[i].IP, ip.addr) /\ ~IsAllowed(ip)

IsExpiredNow(e) == e.ExpiresAt # NoExpiry /\ e.ExpiresAt < now
IsLiveNow(e) == ~IsExpiredNow(e)

\* what CleanupExpired does besides writing the file
CleanupEffect ==
    /\ whitelist' = SelectSeq(whitelist, IsLiveNow)
    /\ lastCall'.removed = Cardinality({i \in 1..Len(whitelist) : IsExpiredNow(whitelist[i])})
    /\ lastCall'.err = "nil"
    /\ blacklist' = blacklist
    /\ Len(auditEvents') = lastCall'.removed
    /\ [i \in 1..Len(auditEvents') |-> auditEvents'[i].Resource]
           = Patterns(SelectSeq(whitelist, IsExpiredNow))
    /\ \A i \in 1..Len(auditEvents') : auditEvents'[i].Action = "whitelist_expired"

\* C8 as stated: every CleanupExpired removes exactly the expired allow
\* entries, returns their count, keeps the rest and the deny list, emits one
\* audit event per removed entry, and writes the file once.
C8_CleanupWritesOnce ==
    [][lastCall'.op = "CleanupExpired" => (CleanupEffect /\ lastCall'.writes = 1)]_vars

\* C8 amended: as above, but the file is written once exactly when at least
\* one entry was removed, and not at all when nothing had expired.
C8_CleanupWritesOnceIfRemoved ==
    [][lastCall'.op = "CleanupExpired"
         => /\ CleanupEffect
            /\ lastCall'.writes = (IF lastCall'.removed > 0 THEN 1 ELSE 0)]_vars

\* a cleanup has just removed an entry and kept another
C8_Witness ==
    /\ lastCall.op = "CleanupExpired"
    /\ lastCall.removed > 0
    /\ lastCall.writes = 1
    /\ Len(whitelist) > 0
    /\ Len(auditEvents) = lastCall.removed

----------------------------------------------------------------------------
(* Properties of circuitbreaker.CircuitBreaker *)

\* the step is the return of the wrapped function of caller c
FnReturned(c) == calls[c].pc = "fn" /\ calls'[c].pc = "sent"

\* the step is the breaker deciding on the call of caller c
Decided(c) == calls[c].pc = "spawned" /\ calls'[c].pc # "spawned"

CooldownElapsed == cb.expiry < now

\* C9 as stated: a breaker that is Closed has seen fewer than
\* FailureThreshold failed calls in a row since the last success (it opens
\* as soon as the F-th consecutive call fails); the calls counted ran one
\* after the other, none overlapping another.
C9_OpenAfterFFailuresInARow == cb.state = "closed" => failRun < FailureThreshold

\* C9 amended: in Closed, a failed call of the current generation opens the
\* breaker exactly when it is the F-th consecutive failure counted since the
\* generation began (the count restarts when Interval runs out); a success
\* or an earlier failure leaves it Closed.
C9_OpenAfterFFailuresInWindow ==
    [][\A c \in Callers :
         (/\ FnReturned(c)
          /\ CurrentState(cb, now).state = "closed"
          /\ CurrentState(cb, now).generation = calls[c].gen)
           => /\ calls'[c].res \in FnErrors
                 => ((cb'.state = "open")
                       <=> (IF CurrentState(cb, now).generation = cb.generation
                            THEN windowRun + 1 ELSE 1) >= FailureThreshold)
              /\ calls'[c].res = "nil" => cb'.state = "closed"]_vars

\* the F-th failure in a row has just opened the breaker for the first time
C9_Witness ==
    /\ cb.state = "open"
    /\ cb.generation = 2
    /\ failRun = FailureThreshold
    /\ \E c \in Callers : calls[c].pc = "sent" /\ calls[c].res \in FnErrors

\* C10: while the breaker is Open and its cooldown has not elapsed, a call is
\* rejected with ErrOpenState, which no wrapped function returns, the wrapped
\* function is not invoked (the goroutine goes straight to its send) and the
\* breaker stays Open; a context cancelled on entry returns without starting
\* the goroutine at all; once the cooldown has elapsed, the next look at the
\* breaker finds it HalfOpen and admits the call.
C10_OpenRejectsUntilCooldown ==
    [][/\ \A c \in Callers :
            (Decided(c) /\ cb.state = "open" /\ ~CooldownElapsed)
              => /\ calls'[c].pc = "sent"
                 /\ calls'[c].res = ErrOpenState
                 /\ calls'[c].res \notin FnResults
       /\ (started' # started /\ calls' = calls) => (cb' = cb /\ lastRet' = CtxErr)
       /\ (cb.state = "open" /\ ~CooldownElapsed) => cb'.state = "open"
       /\ (cb.state = "open" /\ CooldownElapsed /\ cb' # cb) => cb'.state = "half-open"
       /\ \A c \in Callers :
            (Decided(c) /\ cb.state = "open" /\ CooldownElapsed)
              => cb'.state = "half-open" /\ calls'[c].pc = "fn"]_vars

\* a caller has been handed ErrOpenState by a breaker still in its cooldown
C10_Witness ==
    /\ cb.state = "open"
    /\ ~CooldownElapsed
    /\ lastRet = ErrOpenState
    /\ \A c \in Callers : calls[c].pc \in {"idle", "sent"}

\* caller c's step is afterRequest for a trial call of the HalfOpen breaker
TrialStep(c) ==
    /\ calls[c].pc = "fn"
    /\ calls'[c].pc = "sent"
    /\ cb.state = "half-open"
    /\ calls[c].gen = cb.generation

TrialFailed(c) ==
    /\ cb'.state = "open"
    /\ cb'.generation = cb.generation + 1
    /\ cb'.counts = ZeroCounts
    /\ cb'.expiry = now + Timeout

TrialClosed(c) ==
    /\ cb'.state = "closed"
    /\ cb'.generation = cb.generation + 1
    /\ cb'.counts = ZeroCounts

\* C11 as stated: in HalfOpen one successful trial call closes the breaker
\* with its counters reset, one failed trial call opens it again and
\* restarts the cooldown, whatever MaxRequests is
C11_SingleTrialDecides ==
    [][\A c \in Callers :
          TrialStep(c) =>
              IF IsSuccessful(calls'[c].res) THEN TrialClosed(c) ELSE TrialFailed(c)]_vars

\* C11 amended: a failed trial call opens the breaker again and restarts
\* the cooldown; a successful one closes it with counters reset only when
\* it is the MaxRequests-th success in a row of the HalfOpen phase, and
\* otherwise leaves it HalfOpen with the success counted
C11_TrialDecidesAfterMaxRequests ==
    [][\A c \in Callers :
          TrialStep(c) =>
              IF ~IsSuccessful(calls'[c].res) THEN TrialFailed(c)
              ELSE IF cb.counts.ConsecutiveSuccesses + 1 >= MaxRequests
                   THEN TrialClosed(c)
                   ELSE /\ cb'.state = "half-open"
                        /\ cb'.generation = cb.generation
                        /\ cb'.expiry = cb.expiry
                        /\ cb'.counts = CountSuccess(cb.counts)]_vars

C11_Witness ==
    /\ trial = [success |-> TRUE, state |-> "closed"]
    /\ cb.state = "closed"
    /\ cb.counts = ZeroCounts

\* the calls the HalfOpen breaker has admitted and that still run
HalfOpenTrials ==
    {c \in Callers : calls[c].pc = "fn" /\ calls[c].gen = cb.generation}

\* caller c's step is beforeRequest
BeforeStep(c) == calls[c].pc = "spawned" /\ calls'[c].pc # "spawned"

\* C12: while the breaker is HalfOpen it has admitted at most MaxRequests
\* calls, concurrent ones included; a call that arrives below that number
\* is admitted, and every further one is rejected with ErrTooManyRequests
\* and never runs the wrapped function
C12_HalfOpenAdmitsMaxRequests ==
    /\ [](cb.state = "half-open" =>
             /\ cb.counts.Requests <= MaxRequests
             /\ Cardinality(HalfOpenTrials) <= cb.counts.Requests)
    /\ [][\A c \in Callers :
             BeforeStep(c) /\ CurrentState(cb, now).state = "half-open" =>
                 IF CurrentState(cb, now).counts.Requests < MaxRequests
                 THEN /\ calls'[c].pc = "fn"
                      /\ cb'.counts.Requests = CurrentState(cb, now).counts.Requests + 1
                 ELSE /\ calls'[c].pc = "sent"
                      /\ calls'[c].res = ErrTooManyRequests
                      /\ cb' = CurrentState(cb, now)]_vars

C12_Witness ==
    /\ cb.state = "half-open"
    /\ cb.counts.Requests = MaxRequests
    /\ \E c \in Callers : calls[c].pc = "sent" /\ calls[c].res = ErrTooManyRequests
    /\ \E c \in Callers : calls[c].pc = "fn" /\ calls[c].gen = cb.generation

\* C13 as stated: once ExecuteContext has returned, the goroutine it
\* started is neither about to run nor running the wrapped function
C13_CancelAbortsCall ==
    \A c \in Callers : calls[c].pc \in {"spawned", "fn"} => calls[c].waiting

----------------------------------------------------------------------------
(* Properties of ratelimit.Limiter *)

\* the requests whose Allow call the local bucket has just decided
LocalDecided == {c \in Clients : rq[c].pc = "allowed" /\ rq[c].mode = "local"}

\* C14 as stated: in local mode, of the calls that follow a full bucket of
\* capacity C within one second, the first C are allowed and the (C+1)-th
\* is denied
C14_BurstThenDeny ==
    \A c \in LocalDecided :
        /\ rq[c].nth <= Burst(rq[c].tier) => rq[c].ok
        /\ (rq[c].nth = Burst(rq[c].tier) + 1
              /\ rq[c].elapsed < TicksPerSecond) => ~rq[c].ok

\* C14 amended: the first C calls are allowed, and the (C+1)-th is denied
\* exactly when less than 1/rate second has passed since the first, the
\* time the bucket takes to refill one token
C14_BurstThenDenyUntilRefill ==
    \A c \in LocalDecided :
        /\ rq[c].nth <= Burst(rq[c].tier) => rq[c].ok
        /\ rq[c].nth = Burst(rq[c].tier) + 1 =>
              (rq[c].ok <=> rq[c].elapsed * Limit(rq[c].tier) >= TicksPerSecond)

C14_Witness ==
    \E c \in LocalDecided :
        /\ rq[c].tier = "global"
        /\ rq[c].nth = Burst("global") + 1
        /\ ~rq[c].ok

\* the step is the Increment of client c
IncrementStep(c) == rq[c].pc = "idle" /\ rq'[c].pc = "counted"

\* the step is the answer of Middleware to client c
AnswerStep(c) == rq[c].pc \in {"allowed", "counted"} /\ rq'[c].pc = "idle"

\* C15: with the cache reachable Allow returns true iff the value the
\* increment of the key of tier and minute returned is at most rate x 60,
\* no two requests get the same value of a key, and no key admits more
\* than rate x 60 requests however the requests interleave
C15_AllowedIffCountWithinLimit ==
    /\ [](\A k \in Keys : admitted[k] <= Limit(k[1]) * 60)
    /\ [](\A c, d \in Clients :
             (c # d /\ rq[c].pc = "counted" /\ rq[d].pc = "counted"
                /\ rq[c].key = rq[d].key) => rq[c].count # rq[d].count)
    /\ [][\A c \in Clients :
             /\ IncrementStep(c) =>
                   /\ rq'[c].key = <<rq'[c].tier, (now \div TicksPerSecond) \div 60>>
                   /\ rq'[c].count = Counter(rq'[c].key, now).count + 1
                   /\ cache'[rq'[c].key].count = rq'[c].count
             /\ (AnswerStep(c) /\ rq[c].pc = "counted") =>
                   /\ lastResp'.mode = "cache"
                   /\ lastResp'.allowed <=> rq[c].count <= Limit(rq[c].tier) * 60]_vars

C15_Witness ==
    /\ lastResp.mode = "cache"
    /\ ~lastResp.allowed
    /\ cache[<<lastResp.tier, 0>>].count > Limit(lastResp.tier) * 60
    /\ admitted[<<lastResp.tier, 0>>] = Limit(lastResp.tier) * 60

\* C16: when the increment fails, Allow returns what the local bucket of
\* the same tier decides, taking a token of it if there is one, and leaves
\* the other bucket and the cache alone
C16_CacheErrorFallsBackToLocal ==
    [][\A c \in Clients :
          /\ (rq[c].pc = "idle" /\ rq'[c].mode = "fallback") =>
                LET tier == rq'[c].tier
                    tokens == Advance(limiters[tier], now)
                IN  /\ rq'[c].ok <=> tokens >= TokenUnit
                    /\ limiters'[tier].tokens =
                          IF tokens >= TokenUnit THEN tokens - TokenUnit
                          ELSE limiters[tier].tokens
                    /\ \A other \in Tiers \ {tier} : limiters'[other] = limiters[other]
                    /\ cache' = cache
          /\ (AnswerStep(c) /\ rq[c].mode = "fallback") =>
                (lastResp'.allowed <=> rq[c].ok)]_vars

C16_Witness ==
    /\ distributed
    /\ lastResp.mode = "fallback"
    /\ lastResp.allowed
    /\ lastResp.handlerRan

\* C17: the guarded handler runs only for a request whose Allow returned
\* true; a denied request gets status 429 with the limit, remaining and
\* retry-after headers and one audit event rate_limit_exceeded with
\* success false, and never reaches the handler
C17_DeniedNeverReachesHandler ==
    /\ [](lastResp.tier # "none" =>
             /\ lastResp.handlerRan <=> lastResp.allowed
             /\ ~lastResp.allowed =>
                   /\ lastResp.status = 429
                   /\ lastResp.headers.limit = Limit(lastResp.tier)
                   /\ lastResp.headers.remaining = 0
                   /\ lastResp.headers.retryAfter = 60
                   /\ Len(lastResp.audit) = 1
                   /\ lastResp.audit[1].Action = "rate_limit_exceeded"
                   /\ lastResp.audit[1].Success = FALSE
             /\ lastResp.allowed => lastResp.audit = <<>>)
    /\ [][lastResp' # lastResp =>
             \E c \in Clients :
                 /\ AnswerStep(c)
                 /\ lastResp'.tier = rq[c].tier
                 /\ lastResp'.allowed <=>
                       IF rq[c].pc = "counted"
                       THEN rq[c].count <= Limit(rq[c].tier) * 60
                       ELSE rq[c].ok]_vars

C17_Witness ==
    /\ lastResp.tier = "admin"
    /\ ~lastResp.allowed
    /\ lastResp.status = 429
    /\ ~lastResp.handlerRan

----------------------------------------------------------------------------
(* Properties of the control surface *)

MutatingMethods ==
    {"AddToWhitelist", "RemoveFromWhitelist", "AddToBlacklist", "RemoveFromBlacklist",
     "CleanupExpired", "StartContainer", "StopContainer", "RestartContainer"}

\* C18 as stated: a mutating request reaches the whitelist or docker
\* manager only if it presented a valid pre-shared credential
C18_MutationNeedsCredential ==
    (lastRpc.method \in MutatingMethods /\ lastRpc.reached) => lastRpc.credential = "valid"

\* C19 as stated: a start, stop or restart calls the runtime API once and
\* emits one audit event that names the target and tells whether the
\* operation succeeded, also when the runtime API returned an error
C19_OneCallOneEvent ==
    lastDocker.op # "none" =>
        /\ lastDocker.apiCalls = 1
        /\ Len(lastDocker.audit) = 1
        /\ lastDocker.audit[1].Resource = lastDocker.id
        /\ lastDocker.audit[1].Success <=> lastDocker.err = "nil"

----------------------------------------------------------------------------
(* Properties of httpclient.Client *)

\* C20 as stated: every call of Do that has ended, however it ended, has
\* emitted exactly one integration-call event, which names the upstream
\* and tells whether the call succeeded
C20_OneEventPerDo ==
    /\ doEvents = doEnded
    /\ doEvents > 0 =>
          /\ lastEvent.Resource = ServiceName
          /\ lastEvent.Success <=> lastEvent.Error = "nil"

----------------------------------------------------------------------------
(* Properties of the retrying client *)

\* the outcomes the retry policy is to retry: a connection error, a 5xx
\* status, 429 and 408
Retryable(o) == o.err \/ o.status \in 500..599 \/ o.status \in {429, 408}

AfterDelayed429 ==
    /\ retry.pc = "wait"
    /\ ~retry.outcome.err
    /\ retry.outcome.status = 429
    /\ retry.outcome.retryAfter.kind = "seconds"

\* the timer of Do fires and the next attempt starts
NextAttemptStarts == retry.pc = "wait" /\ retry'.pc = "attempt"

\* C22 as stated: after a 429 response with Retry-After: n the wait is
\* exactly n seconds, whatever n, and the next attempt starts no sooner
\* than n seconds after the response
C22_RetryAfterOverrides ==
    /\ [](AfterDelayed429 => retry.wait = retry.outcome.retryAfter.n)
    /\ [][AfterDelayed429 /\ NextAttemptStarts =>
             now >= retry.timerFrom + retry.outcome.retryAfter.n]_vars

\* C22 amended: the same for every n that time.ParseDuration accepts, that
\* is n seconds fit a time.Duration, within [RetryWaitMin, RetryWaitMax]
\* or not; a larger n is not honoured and the computed backoff is used
C22_RetryAfterOverridesIfParsed ==
    /\ [](AfterDelayed429 =>
            IF retry.outcome.retryAfter.n <= MaxDuration
            THEN retry.wait = retry.outcome.retryAfter.n
            ELSE retry.wait = Exponential(retryClient.RetryWaitMin,
                                          retryClient.RetryWaitMax, retry.i))
    /\ [][AfterDelayed429 /\ NextAttemptStarts
             /\ retry.outcome.retryAfter.n <= MaxDuration =>
             now >= retry.timerFrom + retry.outcome.retryAfter.n]_vars

\* a Retry-After above RetryWaitMax was waited for in full and the next
\* attempt is under way
C22_Witness ==
    /\ retry.pc = "attempt"
    /\ retry.i > 0
    /\ ~retry.outcome.err
    /\ retry.outcome.status = 429
    /\ retry.outcome.retryAfter = DelaySeconds(MaxWaitMax + 1)
    /\ retry.wait = MaxWaitMax + 1
    /\ retry.wait > retryClient.RetryWaitMax
    /\ now >= retry.timerFrom + MaxWaitMax + 1

\* C23 as stated: the backoff computed without a Retry-After value lies
\* within [RetryWaitMin, RetryWaitMax] and is no smaller than the one
\* computed for an earlier attempt of the request
C23_BackoffWithinBounds ==
    retry.pc = "wait" /\ retry.computed =>
        /\ retryClient.RetryWaitMin <= retry.wait
        /\ retry.wait <= retryClient.RetryWaitMax
        /\ retry.prev # NoWait => retry.prev <= retry.wait

----------------------------------------------------------------------------
(* Properties of audit.AuditLogger *)

\* the network-identifying prefix of an IPv4 address: its first two octets
NetworkPrefix(o) == <<o[1], o[2]>>

\* C24 as stated: two events whose client addresses share the first two
\* octets carry the same masked IPAddress
C24_MaskDependsOnPrefixOnly ==
    \A i, j \in DOMAIN trail :
        NetworkPrefix(trail[i].addr) = NetworkPrefix(trail[j].addr)
            => trail[i].IPAddress = trail[j].IPAddress

----------------------------------------------------------------------------
(* Properties of health.HealthChecker *)

\* the aggregate status of a Check is degraded exactly when the primary
\* check is unhealthy or a configured cache is unhealthy
DegradedIffUnhealthy ==
    health.probe = "check" =>
        (health.Status = "degraded" <=>
            \/ health.Database.postgres.Status = "unhealthy"
            \/ /\ dbChecker.redisCache # "nil"
               /\ health.Database.redis.Status = "unhealthy")

\* C25 as stated: with no cache configured the cache check of a Check
\* reports the not-configured state and not the unhealthy status, and the
\* aggregate status is degraded exactly when the primary check is
\* unhealthy or a configured cache is unhealthy
C25_NotConfiguredIsNoFailure ==
    /\ health.probe = "check" /\ dbChecker.redisCache = "nil" =>
          /\ health.Database.redis.Error = NotConfigured
          /\ health.Database.redis.Status # "unhealthy"
    /\ DegradedIffUnhealthy

----------------------------------------------------------------------------
(* Properties of ratelimit.PerIPLimiter *)

\* C26 as stated: the map of per-IP limiters never holds more entries than
\* the cleanup policy allows, one more than its threshold at most
C26_LimitersBounded == Cardinality(DOMAIN perIP) <= StaleThreshold + 1

----------------------------------------------------------------------------
(* Properties of whitelist.Manager across restarts *)

RECURSIVE LivePatterns(_)
\* the patterns of the entries of a list that are not expired now, in order
LivePatterns(list) ==
    IF list = <<>> THEN <<>>
    ELSE (IF IsLiveNow(Head(list)) THEN <<Head(list).IP>> ELSE <<>>)
            \o LivePatterns(Tail(list))

\* the step is a NewManager
Restarts == lastCall'.op = "NewManager"

----------------------------------------------------------------------------
(* Properties of docker.Manager.GetContainerStats *)

\* C30 as stated: for an identifier the runtime API accepts, of whatever
\* length, GetContainerStats returns a stats result or an error and is
\* never aborted by an out-of-range failure
C30_StatsOrError ==
    lastStats.outcome # "none" /\ Resolves(lastStats.nameOrID) =>
        /\ lastStats.outcome \in {"stats", "error"}
        /\ lastStats.outcome = "stats" <=> lastStats.err = "nil"

----------------------------------------------------------------------------
(* Properties of whitelist.Manager under concurrent callers *)

PatternsOf(list) == {list[i].IP : i \in 1..Len(list)}

\* no list holds two entries with the same pattern string
NoDuplicatePattern ==
    /\ Cardinality(PatternsOf(whitelist)) = Len(whitelist)
    /\ Cardinality(PatternsOf(blacklist)) = Len(blacklist)

\* two racing AddToWhitelist calls for one pattern, both returned
RacedAdds(t, u) ==
    /\ t # u
    /\ th[t].pc = "done" /\ th[u].pc = "done"
    /\ th[t].rival = u /\ th[u].rival = t

\* C27 as stated: under any interleaving of the add and remove calls on a
\* manager that started empty no list ever holds two entries with the same
\* pattern, and of two racing AddToWhitelist calls for the same pattern
\* exactly one succeeds and the other fails as a duplicate
C27_OneOfTwoRacingAddsSucceeds ==
    /\ NoDuplicatePattern
    /\ \A t, u \in Threads :
          RacedAdds(t, u) => {th[t].res, th[u].res} = {"nil", "duplicate"}

\* C27, amended: no list ever holds two entries with the same pattern; of
\* two racing AddToWhitelist calls for the same pattern at most one
\* succeeds, one fails as a duplicate only if the other succeeded, and
\* unless a file write fails exactly one succeeds and the other fails as a
\* duplicate
C27_AtMostOneRacingAddSucceeds ==
    /\ NoDuplicatePattern
    /\ \A t, u \in Threads :
          RacedAdds(t, u) =>
             /\ ~(th[t].res = "nil" /\ th[u].res = "nil")
             /\ th[t].res = "duplicate" => th[u].res = "nil"
             /\ "write" \notin {th[t].res, th[u].res} =>
                   {th[t].res, th[u].res} = {"nil", "duplicate"}

\* two racing adds have returned, one with success and one as a duplicate,
\* and the pattern is in the list once
C27_Witness ==
    \E t, u \in Threads :
       /\ RacedAdds(t, u)
       /\ th[t].res = "nil" /\ th[u].res = "duplicate"
       /\ Cardinality({i \in 1..Len(whitelist) : whitelist[i].IP = th[t].ip}) = 1

\* the goroutines inside a mutating method, between Lock and Unlock
InsideMutation == {t \in Threads : th[t].op \in MutatingOps
                                     /\ th[t].pc \in {"check", "change", "write", "writing",
                                                      "after", "unlock"}}

\* the goroutines whose os.WriteFile is in progress
Writing == {t \in Threads : th[t].pc = "writing"}

\* the patterns AddToWhitelist has appended whose write has not yet
\* succeeded: they may still be rolled back
Uncommitted ==
    {th[t].ip : t \in {u \in Threads : /\ th[u].op = "AddToWhitelist"
                                        /\ \/ th[u].pc \in {"write", "writing"}
                                           \/ th[u].pc = "after" /\ ~th[u].wrote}}

\* what a reader observes is free of entries that may be rolled back
ReadsCommitted ==
    \A t \in Threads : ReadStep(t) => Uncommitted = {}

\* C28: every mutating method holds the write lock from its first step to
\* its return, no two writes of the file overlap, and a concurrent
\* IsAllowed or GetWhitelist never observes an allow entry whose file write
\* then fails and is rolled back
C28_WriteLockHeldThroughout ==
    /\ [](/\ \A t \in InsideMutation : mu.writer = t
          /\ Cardinality(Writing) <= 1
          /\ mu.writer # NoThread => mu.readers = {})
    /\ [][ReadsCommitted]_vars

\* an AddToWhitelist whose write has failed is about to roll back while
\* a reader waits at the lock
C28_Witness ==
    \E t, u \in Threads :
       /\ th[t].op = "AddToWhitelist" /\ th[t].pc = "after" /\ ~th[t].wrote
       /\ th[u].op \in ReadingOps /\ th[u].pc = "lock"

====
